---- MODULE Spec2Model ----
(***************************************************************************)
(* Dynamic schema resolution of mcp-jira-rs: the story-points field        *)
(* discovery, send_request and the sprint analysis of src/src/jira.rs, and *)
(* the transition, editable-field, issue-type and assignee resolution      *)
(* described in spec.md section 4 over the DTOs of src/src/domains and     *)
(* src/src/families.                                                       *)
(*                                                                         *)
(* Strings whose characters matter (display names, status names) are       *)
(* sequences of code points, so that eq_ignore_ascii_case is computed      *)
(* character by character.  Identifiers, which the code only copies and    *)
(* compares for equality, are TLA+ strings.                                *)
(***************************************************************************)
EXTENDS Integers, Sequences, FiniteSets, TLC

VARIABLES
    pc,             \* position of the one logical operation in flight
    fields,         \* Vec<Field> returned by fetch_fields_internal
    fieldResult,    \* Result<String, Error> of find_story_points_field_id
    fieldRequests,  \* GET /rest/api/3/field requests sent by the operation in flight
    fieldReply,     \* what the tenant answered to that request
    target,         \* Status requested from the transition resolver
    transitions,    \* Vec<Transition> returned for the issue
    passesRun,      \* passes of the transition resolver executed so far
    transitionResult, \* Option<ResolutionResult> of the transition resolver
    editFields,     \* edit-screen fields returned for the issue
    editResult,     \* Option<FieldDescriptor> of the editable-field selector
    projectKey,     \* project key requested from the issue-type resolver
    typeLabel,      \* issue-type label requested
    createMeta,     \* CreateMeta.projects returned by the gateway
    typesScanned,   \* issue types the resolver has compared so far
    typeResult,     \* Option<(id, isSubtask)> of the issue-type resolver, with its error
    token,          \* assignee token given to the assignee resolver
    userCalls,      \* getCurrentUser calls made by the operation in flight
    currentUser,    \* what getCurrentUser answered, if it was asked
    assigneeResult, \* Option<String> of the assignee resolver, or its failure
    params,         \* AgileSprintAnalyzeParams of the sprint analysis in flight
    requestLog,     \* requests the sprint analysis has sent, each with its outcome
    sprintId,       \* sprint_id local of analyze_sprint_internal
    sprintObj,      \* sprint_obj local of analyze_sprint_internal
    activeSprints,  \* sprints.values of the active-sprint lookup, once answered
    issuesResponse, \* issues_response.issues, once the sprint's issues arrived
    storyPointsFieldId,\* story_points_field_id local of analyze_sprint_internal
    analysis,       \* Result<String, Error> of analyze_sprint_internal
    calls,          \* invocations of find_story_points_field_id begun so far
    fetches,        \* GET /rest/api/3/field requests sent so far, over all invocations
    earlierFields,  \* the catalog the previous invocation was answered with, if any
    tenant,         \* metadata the gateway answers with while resolvers run in parallel
    taskPc,         \* position of each of the two parallel resolver tasks
    toolPc,         \* position of the tool call in flight
    toolCall,       \* the tool called and its parameters
    toolLog,        \* requests the tool call has sent, each with its outcome
    toolResponse,   \* the String the tool returned
    filterPc,       \* position of the field-filter computation in flight
    preset,         \* FieldPreset whose to_field_list was taken
    filterIn,       \* filter given to parse_field_filter
    filterOut,      \* String returned by to_field_list or parse_field_filter
    filterAgain     \* parse_field_filter applied to its own output

vars == <<pc, fields, fieldResult, fieldRequests, fieldReply, target, transitions, passesRun, transitionResult,
          editFields, editResult,
          projectKey, typeLabel, createMeta, typesScanned, typeResult,
          token, userCalls, currentUser, assigneeResult,
          params, requestLog, sprintId, sprintObj, activeSprints, issuesResponse,
          storyPointsFieldId, analysis,
          calls, fetches, earlierFields,
          tenant, taskPc,
          toolPc, toolCall, toolLog, toolResponse,
          filterPc, preset, filterIn, filterOut, filterAgain>>
fieldVars == <<fields, fieldResult, fieldRequests, fieldReply>>
transitionVars == <<target, transitions, passesRun, transitionResult>>
editVars == <<editFields, editResult>>
typeVars == <<projectKey, typeLabel, createMeta, typesScanned, typeResult>>

assigneeVars == <<token, userCalls, currentUser, assigneeResult>>
analyzeVars ==
    <<params, requestLog, sprintId, sprintObj, activeSprints, issuesResponse, storyPointsFieldId,
      analysis>>
callVars == <<calls, fetches, earlierFields>>
parVars == <<tenant, taskPc>>
toolVars == <<toolPc, toolCall, toolLog, toolResponse>>
filterVars == <<filterPc, preset, filterIn, filterOut, filterAgain>>
\* What an action of one component leaves alone in the others.
restOfField == <<transitionVars, editVars, typeVars, assigneeVars, analyzeVars, callVars, parVars, toolVars, filterVars>>
restOfTransition == <<fieldVars, editVars, typeVars, assigneeVars, analyzeVars, callVars, parVars, toolVars, filterVars>>
restOfEdit == <<transitionVars, typeVars, assigneeVars, analyzeVars, callVars, parVars, toolVars, filterVars>>
restOfType == <<fieldVars, transitionVars, editVars, assigneeVars, analyzeVars, callVars, parVars, toolVars, filterVars>>
restOfAssignee == <<fieldVars, transitionVars, editVars, typeVars, analyzeVars, callVars, parVars, toolVars, filterVars>>
restOfAnalyze == <<fieldVars, transitionVars, editVars, typeVars, assigneeVars, callVars, parVars, toolVars, filterVars>>
restOfCalls == <<transitionVars, editVars, typeVars, assigneeVars, analyzeVars, parVars, toolVars, filterVars>>
restOfPar == <<editVars, typeVars, assigneeVars, analyzeVars, callVars, toolVars, filterVars>>
restOfTools == <<pc, fieldVars, transitionVars, editVars, typeVars, assigneeVars, analyzeVars, callVars, parVars, filterVars>>
restOfFilter == <<pc, fieldVars, transitionVars, editVars, typeVars, assigneeVars, analyzeVars, callVars, parVars, toolVars>>

----------------------------------------------------------------------------
(* Bounds of the model.                                                    *)

MaxFields == 3
MaxTransitions == 2
MaskPeriod == 3
MaxEditFields == 1
MaxTypes == 2
MaxIssues == 3
MaxCalls == 3
MaxParTransitions == 2

----------------------------------------------------------------------------
(* String literals, as code points.                                        *)

\* "Story Points"
StoryPoints == <<83, 116, 111, 114, 121, 32, 80, 111, 105, 110, 116, 115>>
\* "Story point estimate"
StoryPointEstimate ==
    <<83, 116, 111, 114, 121, 32, 112, 111, 105, 110, 116, 32,
      101, 115, 116, 105, 109, 97, 116, 101>>
\* "story points"
NameStoryPointsLower == <<115, 116, 111, 114, 121, 32, 112, 111, 105, 110, 116, 115>>
\* "STORY POINT ESTIMATE"
NameEstimateUpper ==
    <<83, 84, 79, 82, 89, 32, 80, 79, 73, 78, 84, 32,
      69, 83, 84, 73, 77, 65, 84, 69>>
\* "Story Point" (a proper prefix of a candidate)
NameStoryPoint == <<83, 116, 111, 114, 121, 32, 80, 111, 105, 110, 116>>
\* "Story Points Total" (contains a candidate)
NameStoryPointsTotal ==
    <<83, 116, 111, 114, 121, 32, 80, 111, 105, 110, 116, 115, 32, 84, 111, 116, 97, 108>>
\* "Stóry Points" (a non-ASCII letter in place of the o)
NameStoryPointsAccent == <<83, 116, 243, 114, 121, 32, 80, 111, 105, 110, 116, 115>>

\* Display names a tenant's field catalog may carry.
FieldNames ==
    { StoryPoints, NameStoryPointsLower, NameEstimateUpper,
      NameStoryPoint, NameStoryPointsTotal, NameStoryPointsAccent }

\* Field identifiers a tenant's field catalog may carry.
FieldIds == { "customfield_10016", "customfield_10020" }

\* families::metadata::Field, reduced to the two members the resolver reads.
Field == [id : FieldIds, name : FieldNames]

\* Every Vec<Field> of at most MaxFields entries.
Catalogs == UNION { [1..n -> Field] : n \in 0..MaxFields }

----------------------------------------------------------------------------
(* str::eq_ignore_ascii_case                                               *)

ToAsciiLowercase(c) == IF c \in 65..90 THEN c + 32 ELSE c

EqExact(a, b) == a = b

EqPrefixIgnoreAsciiCase(a, b) ==
    /\ Len(a) >= Len(b)
    /\ \A i \in 1..Len(b) : ToAsciiLowercase(a[i]) = ToAsciiLowercase(b[i])

EqIgnoreAsciiCase(a, b) ==
    /\ Len(a) = Len(b)
    /\ \A i \in 1..Len(a) : ToAsciiLowercase(a[i]) = ToAsciiLowercase(b[i])

----------------------------------------------------------------------------
(* find_story_points_field_id                                              *)

\* let candidates = ["Story Points", "Story point estimate"];
Candidates == <<StoryPoints, StoryPointEstimate>>

DefaultStoryPointsFieldId == "customfield_10016"

\* candidates.iter().any(|&c| field.name.eq_ignore_ascii_case(c))
AnyCandidate(candidates, name) ==
    \E k \in 1..Len(candidates) : EqIgnoreAsciiCase(name, candidates[k])

\* for field in fields { if <any candidate> { return Ok(field.id) } }:
\* the index of the field the loop returns from, 0 when it runs to the end.
RECURSIVE ScanFields(_, _, _)
ScanFields(fs, candidates, i) ==
    IF i > Len(fs) THEN 0
    ELSE IF AnyCandidate(candidates, fs[i].name) THEN i
    ELSE ScanFields(fs, candidates, i + 1)

\* The last matching field instead of the first.
ScanFieldsLast(fs, candidates) ==
    LET hits == { i \in 1..Len(fs) : AnyCandidate(candidates, fs[i].name) }
    IN  IF hits = {} THEN 0 ELSE CHOOSE i \in hits : \A j \in hits : i >= j

FirstMatchingField(fs, candidates) == ScanFields(fs, candidates, 1)

\* The body with the fallback taken from the catalog instead of the literal.
ResolveFieldFallbackFirst(fs, candidates) ==
    LET i == FirstMatchingField(fs, candidates)
    IN  IF i = 0
        THEN [kind |-> "Ok",
              id |-> IF Len(fs) > 0 THEN fs[1].id ELSE DefaultStoryPointsFieldId,
              idx |-> 0]
        ELSE [kind |-> "Ok", id |-> fs[i].id, idx |-> i]

\* The body of find_story_points_field_id after the fetch, for any candidates.
ResolveField(fs, candidates) ==
    LET i == FirstMatchingField(fs, candidates)
    IN  IF i = 0
        THEN [kind |-> "Ok", id |-> DefaultStoryPointsFieldId, idx |-> 0]
        ELSE [kind |-> "Ok", id |-> fs[i].id, idx |-> i]

NoFieldResult == [kind |-> "Pending", id |-> "", idx |-> 0]

\* Err(e) of find_story_points_field_id.
FieldFetchError(e) == [kind |-> "Err", id |-> "", idx |-> 0, error |-> e]

----------------------------------------------------------------------------
(* send_request for GET /rest/api/3/field                                  *)

\* What can happen to the one request: the connection fails, or a response
\* arrives with a status and a body; reading the body can fail as well.
NoReply == [kind |-> "none"]
Unreachable == { [kind |-> "unreachable", cause |-> c] : c \in { "connect", "timeout" } }
BodyTexts == { "", "null", "<html>", "{\"errorMessages\":[\"no\"]}" }
TextBodies == { [form |-> "text", text |-> t] : t \in BodyTexts }
AbortedBody == [form |-> "aborted"]
JsonBody(cat) == [form |-> "json", value |-> cat]
HttpStatuses == { 200, 204, 401, 404, 503 }
Response(status, body) == [kind |-> "response", status |-> status, body |-> body]

\* Replies for which fetch_fields_internal cannot return a Vec<Field>.
FailingReplies ==
    Unreachable
    \cup { Response(st, b) : st \in HttpStatuses, b \in TextBodies \cup { AbortedBody } }

\* StatusCode::is_success
IsSuccess(status) == status \in 200..299

TransportError(cause) == [source |-> "reqwest", detail |-> cause]
\* format!("HTTP {}: {}", status, text)
HttpError(status, text) == [source |-> "HTTP {}: {}", status |-> status, text |-> text]
DecodeError(why) == [source |-> "serde_json", detail |-> why]

\* serde_json::from_str::<Vec<Field>> of a body.
DecodeFields(body) ==
    IF body.form = "json" THEN [kind |-> "Ok", value |-> body.value]
    ELSE IF body.text = "null"
    THEN [kind |-> "Err", error |-> DecodeError("invalid type: null, expected a sequence")]
    ELSE IF body.text = "<html>"
    THEN [kind |-> "Err", error |-> DecodeError("expected value")]
    ELSE [kind |-> "Err", error |-> DecodeError("invalid type: map, expected a sequence")]

\* send_request::<Vec<Field>, ()>: one send, no retry.
SendRequest(reply) ==
    IF reply.kind = "unreachable"
    THEN [kind |-> "Err", error |-> TransportError(reply.cause)]
    ELSE IF reply.body.form = "aborted"
    THEN [kind |-> "Err", error |-> TransportError("body")]
    ELSE IF ~IsSuccess(reply.status)
    THEN [kind |-> "Err", error |-> HttpError(reply.status, reply.body.text)]
    ELSE IF reply.body.form = "text" /\ reply.body.text \in { "", "null" }
    THEN DecodeFields([form |-> "text", text |-> "null"])
    ELSE DecodeFields(reply.body)

\* A resolver that answers the default identifier when the fetch failed.
FindStoryPointsOrDefault(fetched) ==
    IF fetched.kind = "Err"
    THEN [kind |-> "Ok", id |-> DefaultStoryPointsFieldId, idx |-> 0]
    ELSE ResolveField(fetched.value, Candidates)

\* find_story_points_field_id once fetch_fields_internal has returned: `?`
\* hands an Err back as it is, otherwise the loop runs.
FindStoryPoints(fetched) ==
    IF fetched.kind = "Err"
    THEN FieldFetchError(fetched.error)
    ELSE ResolveField(fetched.value, Candidates)

----------------------------------------------------------------------------
(* Status and the transition DTOs                                          *)

Statuses == { "ToDo", "InProgress", "Done", "InReview", "Blocked", "Cancelled" }

\* impl fmt::Display for Status, with "In Progress" written without its space.
StatusNameNoSpace(s) ==
    CASE s = "ToDo"       -> <<84, 111, 32, 68, 111>>
      [] s = "InProgress" -> <<73, 110, 80, 114, 111, 103, 114, 101, 115, 115>>
      [] s = "Done"       -> <<68, 111, 110, 101>>
      [] s = "InReview"   -> <<73, 110, 32, 82, 101, 118, 105, 101, 119>>
      [] s = "Blocked"    -> <<66, 108, 111, 99, 107, 101, 100>>
      [] s = "Cancelled"  -> <<67, 97, 110, 99, 101, 108, 108, 101, 100>>

\* impl fmt::Display for Status: the canonical name of a status.
StatusName(s) ==
    CASE s = "ToDo"       -> <<84, 111, 32, 68, 111>>
      [] s = "InProgress" -> <<73, 110, 32, 80, 114, 111, 103, 114, 101, 115, 115>>
      [] s = "Done"       -> <<68, 111, 110, 101>>
      [] s = "InReview"   -> <<73, 110, 32, 82, 101, 118, 105, 101, 119>>
      [] s = "Blocked"    -> <<66, 108, 111, 99, 107, 101, 100>>
      [] s = "Cancelled"  -> <<67, 97, 110, 99, 101, 108, 108, 101, 100>>

\* "in progress"
NameInProgressLower == <<105, 110, 32, 112, 114, 111, 103, 114, 101, 115, 115>>
\* "Start Progress"
NameStartProgress == <<83, 116, 97, 114, 116, 32, 80, 114, 111, 103, 114, 101, 115, 115>>
\* "In Progress"
NameInProgress == <<73, 110, 32, 80, 114, 111, 103, 114, 101, 115, 115>>
\* "DONE"
NameDoneUpper == <<68, 79, 78, 69>>
\* "In Progress Review" (contains a canonical name)
NameInProgressReview ==
    <<73, 110, 32, 80, 114, 111, 103, 114, 101, 115, 115, 32, 82, 101, 118, 105, 101, 119>>

\* Action names and destination status names a workflow may carry.
ActionNames == { NameInProgressLower, NameStartProgress }
DestinationNames == { NameInProgress, NameDoneUpper, NameInProgressReview }

\* StatusCategory.key; "absent" stands for status_category: None.
CategoryKeys == { "new", "indeterminate", "done" }
NoCategory == "absent"

\* TransitionTo
TransitionTo == [name : DestinationNames, statusCategory : CategoryKeys \cup {NoCategory}]

\* Transition identifiers, by position in the response.
TransitionIds == <<"11", "21", "31", "41">>

\* Transition without its id.
TransitionBody == [name : ActionNames, to : TransitionTo]

WithIds(bodies) ==
    [i \in 1..Len(bodies) |->
        [id |-> TransitionIds[i], name |-> bodies[i].name, to |-> bodies[i].to]]

\* Every TransitionResponse.transitions of at most MaxTransitions entries.
TransitionLists ==
    { WithIds(b) : b \in UNION { [1..n -> TransitionBody] : n \in 0..MaxTransitions } }

----------------------------------------------------------------------------
(* The transition resolver (spec.md 4.4)                                   *)

\* The bucket table with Blocked filed under done.
CategoryBucketBlockedDone(s) ==
    CASE s = "ToDo" -> "new"
      [] s \in { "InProgress", "InReview" } -> "indeterminate"
      [] s \in { "Done", "Cancelled", "Blocked" } -> "done"

\* {ToDo->new, InProgress|InReview|Blocked->indeterminate, Done|Cancelled->done}
CategoryBucket(s) ==
    CASE s = "ToDo" -> "new"
      [] s \in { "InProgress", "InReview", "Blocked" } -> "indeterminate"
      [] s \in { "Done", "Cancelled" } -> "done"

\* Pass 1: first transition whose action name equals the canonical name.
RECURSIVE ScanActionName(_, _, _)
ScanActionName(ts, name, i) ==
    IF i > Len(ts) THEN 0
    ELSE IF EqIgnoreAsciiCase(ts[i].name, name) THEN i
    ELSE ScanActionName(ts, name, i + 1)

\* Pass 2: first transition whose destination status name equals it.
RECURSIVE ScanTargetName(_, _, _)
ScanTargetName(ts, name, i) ==
    IF i > Len(ts) THEN 0
    ELSE IF EqIgnoreAsciiCase(ts[i].to.name, name) THEN i
    ELSE ScanTargetName(ts, name, i + 1)

\* Pass 3: first transition whose destination category is the bucket.
RECURSIVE ScanCategory(_, _, _)
ScanCategory(ts, bucket, i) ==
    IF i > Len(ts) THEN 0
    ELSE IF ts[i].to.statusCategory = bucket THEN i
    ELSE ScanCategory(ts, bucket, i + 1)

Pass1(ts, s) == ScanActionName(ts, StatusName(s), 1)
Pass2(ts, s) == ScanTargetName(ts, StatusName(s), 1)
Pass3(ts, s) == ScanCategory(ts, CategoryBucket(s), 1)

\* ResolutionResult {identifier, matchedVia}, wrapped in Option.
Resolved(ts, i, via) ==
    [kind |-> "Some", identifier |-> ts[i].id, matchedVia |-> via]
NoneResult == [kind |-> "None", identifier |-> "", matchedVia |-> ""]
NoTransitionResult == [kind |-> "Pending", identifier |-> "", matchedVia |-> ""]
TransitionFetchError == [kind |-> "Err", identifier |-> "", matchedVia |-> ""]

----------------------------------------------------------------------------
(* The editable-field selector (spec.md 4.2)                               *)

\* Edit-screen field lists, and the global catalogs fetched for its
\* diagnostic, of at most MaxEditFields entries.
EditScreens == UNION { [1..n -> Field] : n \in 0..MaxEditFields }

\* First field, in list order, whose display name equals the name.
RECURSIVE ScanDisplayName(_, _, _)
ScanDisplayName(fs, name, i) ==
    IF i > Len(fs) THEN 0
    ELSE IF EqIgnoreAsciiCase(fs[i].name, name) THEN i
    ELSE ScanDisplayName(fs, name, i + 1)

\* Candidates in priority order, each scanned over the fields in list order.
RECURSIVE ScanByCandidate(_, _, _)
ScanByCandidate(fs, candidates, k) ==
    IF k > Len(candidates) THEN 0
    ELSE LET i == ScanDisplayName(fs, candidates[k], 1)
         IN  IF i # 0 THEN i ELSE ScanByCandidate(fs, candidates, k + 1)

NoEditResult == [kind |-> "Pending", id |-> ""]
EditFetchError == [kind |-> "Err", id |-> ""]

\* resolve(issueKey, candidates) over the fetched edit-screen fields.
SelectEditable(efs, candidates) ==
    LET i == ScanByCandidate(efs, candidates, 1)
    IN  IF i = 0 THEN [kind |-> "None", id |-> ""]
        ELSE [kind |-> "Some", id |-> efs[i].id]


----------------------------------------------------------------------------
(* The issue-type resolver (spec.md 4.3)                                   *)

\* "PROJ", "PROJ2", "proj"
KeyProj == <<80, 82, 79, 74>>
KeyProj2 == <<80, 82, 79, 74, 50>>
KeyProjLower == <<112, 114, 111, 106>>
\* "bug", "epic"
LabelBug == <<98, 117, 103>>
LabelEpic == <<101, 112, 105, 99>>
\* "Bug", "BUG", "Fehler", "Bugfix", "Epic"
NameBug == <<66, 117, 103>>
NameBugUpper == <<66, 85, 71>>
NameFehler == <<70, 101, 104, 108, 101, 114>>
NameBugfix == <<66, 117, 103, 102, 105, 120>>
NameEpic == <<69, 112, 105, 99>>

\* Project keys a createmeta response may carry, and keys a caller may ask for.
ProjectKeys == { KeyProj, KeyProj2 }
RequestedKeys == { KeyProj, KeyProjLower }
\* Labels a caller may ask for.
TypeLabels == { LabelBug, LabelEpic }

\* IssueTypeDescriptor without its id: a type found by its name only, one
\* found by its untranslatedName only (a localized tenant), one that merely
\* starts like a label, and one found by either.
TypeBody ==
    { [naming |-> <<NameBugUpper, NameFehler>>, isSubtask |-> FALSE],
      [naming |-> <<NameFehler, NameBug>>, isSubtask |-> TRUE],
      [naming |-> <<NameBugfix, NameBugfix>>, isSubtask |-> FALSE],
      [naming |-> <<NameEpic, NameEpic>>, isSubtask |-> TRUE] }

\* Issue-type identifiers, by project position and type position.
IssueTypeIds ==
    << <<"10001", "10002", "10003">>, <<"10101", "10102", "10103">>,
       <<"10201", "10202", "10203">> >>

\* Every issuetypes list of at most MaxTypes entries, ids left open.
TypeBodyLists == UNION { [1..n -> TypeBody] : n \in 0..MaxTypes }

\* ProjectMeta: key and issuetypes.
ProjectBody == [key : ProjectKeys, issuetypes : TypeBodyLists]

WithTypeIds(projects) ==
    [p \in 1..Len(projects) |->
        [key |-> projects[p].key,
         issuetypes |->
            [t \in 1..Len(projects[p].issuetypes) |->
                [id |-> IssueTypeIds[p][t],
                 name |-> projects[p].issuetypes[t].naming[1],
                 untranslatedName |-> projects[p].issuetypes[t].naming[2],
                 isSubtask |-> projects[p].issuetypes[t].isSubtask]]]]

\* Every CreateMeta.projects: project keys are unique within a response.
CreateMetas ==
    { WithTypeIds(ps) :
        ps \in { q \in UNION { [1..n -> ProjectBody] : n \in 0..Cardinality(ProjectKeys) } :
                    \A i, j \in DOMAIN q : q[i].key = q[j].key => i = j } }

\* Project keys compared ignoring ASCII case.
KeyEqIgnoreCase(a, b) == EqIgnoreAsciiCase(a, b)

\* Exact project-key comparison.
KeyEq(a, b) == a = b

\* The project entry whose key is the requested key; 0 when there is none.
RECURSIVE LocateProject(_, _, _)
LocateProject(projects, key, p) ==
    IF p > Len(projects) THEN 0
    ELSE IF KeyEq(projects[p].key, key) THEN p
    ELSE LocateProject(projects, key, p + 1)

\* A type matches by its name only.
TypeMatchesByName(t, label) == EqIgnoreAsciiCase(t.name, label)

\* name or untranslatedName equals the label, case-insensitively.
TypeMatches(t, label) ==
    \/ EqIgnoreAsciiCase(t.name, label)
    \/ EqIgnoreAsciiCase(t.untranslatedName, label)

\* First issue type of the project, in catalog order, that matches.
RECURSIVE ScanIssueTypes(_, _, _)
ScanIssueTypes(types, label, i) ==
    IF i > Len(types) THEN 0
    ELSE IF TypeMatches(types[i], label) THEN i
    ELSE ScanIssueTypes(types, label, i + 1)

NoTypeResult == [kind |-> "Pending", id |-> "", isSubtask |-> FALSE, error |-> ""]
TypeFetchError == [kind |-> "Err", id |-> "", isSubtask |-> FALSE, error |-> "upstream"]

\* Both failures reported as type-not-found.
TypeFailureUniform(which) ==
    [kind |-> "None", id |-> "", isSubtask |-> FALSE, error |-> "typeNotFoundInProject"]

\* None, with the error that tells the two failure modes apart.
TypeFailure(which) ==
    [kind |-> "None", id |-> "", isSubtask |-> FALSE, error |-> which]

TypeFound(t) ==
    [kind |-> "Some", id |-> t.id, isSubtask |-> t.isSubtask, error |-> ""]


----------------------------------------------------------------------------
(* The assignee resolver (spec.md 4.5)                                     *)

\* "me", "unassigned"
SentinelMe == <<109, 101>>
SentinelUnassigned == <<117, 110, 97, 115, 115, 105, 103, 110, 101, 100>>
\* "ME", "Me", "mel", "me "
TokenMeUpper == <<77, 69>>
TokenMeCapital == <<77, 101>>
TokenMel == <<109, 101, 108>>
TokenMeSpace == <<109, 101, 32>>
\* "Unassigned", "UNASSIGNED", "unassigned?"
TokenUnassignedCapital == <<85, 110, 97, 115, 115, 105, 103, 110, 101, 100>>
TokenUnassignedUpper == <<85, 78, 65, 83, 83, 73, 71, 78, 69, 68>>
TokenUnassignedQuery == <<117, 110, 97, 115, 115, 105, 103, 110, 101, 100, 63>>
\* Account ids "5b10a2" and "712020"
AccountIdA == <<53, 98, 49, 48, 97, 50>>
AccountIdB == <<55, 49, 50, 48, 50, 48>>

\* User.account_id values the tenant may report for the caller.
AccountIds == { AccountIdA, AccountIdB }

\* IssueAssignArgs.assignee: "me", "unassigned", or an account id; the empty
\* string and near-sentinels are tokens like any other.
Tokens ==
    { SentinelMe, TokenMeUpper, TokenMeCapital, TokenMel, TokenMeSpace,
      SentinelUnassigned, TokenUnassignedCapital, TokenUnassignedUpper,
      TokenUnassignedQuery, AccountIdA, AccountIdB, <<>> }

\* Sentinel comparison that tells letter cases apart.
IsSentinelExact(tok, sentinel) == tok = sentinel

\* token compared case-insensitively against a sentinel.
IsSentinel(tok, sentinel) == EqIgnoreAsciiCase(tok, sentinel)

\* A resolver that asks for the current user whatever the token.
NeedsCurrentUserAlways(tok) == TRUE

\* Only "me" triggers the current-user lookup.
NeedsCurrentUser(tok) == IsSentinel(tok, SentinelMe)

NotAsked == [kind |-> "NotAsked", id |-> <<>>]
NoAssigneeResult == [kind |-> "Pending", value |-> <<>>]
AssigneeFetchError == [kind |-> "Err", value |-> <<>>]

\* The result for a token that needs no lookup: the empty-string value for
\* "unassigned", the token itself otherwise.
ResolveWithoutLookup(tok) ==
    IF IsSentinel(tok, SentinelUnassigned)
    THEN [kind |-> "Some", value |-> <<>>]
    ELSE [kind |-> "Some", value |-> tok]


----------------------------------------------------------------------------
(* analyze_sprint_internal: data                                           *)

None == [some |-> FALSE]
Some(v) == [some |-> TRUE, v |-> v]

\* AgileSprintAnalyzeParams
SprintIdArgs == { None, Some(7) }
BoardIdArgs == { None, Some(3) }
MetricsArgs ==
    { None, Some({}), Some({ "blocked" }), Some({ "unestimated", "capacity" }),
      Some({ "velocity", "completion" }) }
AnalyzeParams == [sprint_id : SprintIdArgs, board_id : BoardIdArgs, metrics : MetricsArgs]
NoParams == [sprint_id |-> None, board_id |-> None, metrics |-> None]

\* params.metrics.unwrap_or_else(|| vec!["velocity", "unestimated"])
MetricsOf(p) == IF p.metrics.some THEN p.metrics.v ELSE { "velocity", "unestimated" }

\* Discovery for the two sums only.
NeedsStoryPointsForSums(metrics) == "velocity" \in metrics \/ "completion" \in metrics

\* The metrics that need the story-points field.
NeedsStoryPoints(metrics) ==
    "velocity" \in metrics \/ "completion" \in metrics \/ "unestimated" \in metrics

\* PageBeanSprint.values, by sprint id.
ActiveSprintPages == { <<>>, <<8>>, <<9, 8>> }

\* Sprint: name and state.
NoSprint == [name |-> "", state |-> ""]
Sprints == { [name |-> "Sprint 1", state |-> s] : s \in { "active", "closed" } }

\* Status names "Done", "Closed", "done", "In Progress", "BLOCKED by QA"
StatusDone == <<68, 111, 110, 101>>
StatusClosed == <<67, 108, 111, 115, 101, 100>>
StatusDoneLower == <<100, 111, 110, 101>>
StatusInProgress == <<73, 110, 32, 80, 114, 111, 103, 114, 101, 115, 115>>
StatusBlockedByQa == <<66, 76, 79, 67, 75, 69, 68, 32, 98, 121, 32, 81, 65>>
\* "blocked"
Blocked == <<98, 108, 111, 99, 107, 101, 100>>

\* Issue: key, the field that carries its story points (if estimated), and
\* the name of its status.
IssuePool ==
    { [key |-> "P-1", pointsField |-> "customfield_10016", points |-> Some(3), status |-> StatusDone],
      [key |-> "P-2", pointsField |-> "customfield_10020", points |-> Some(5), status |-> StatusClosed],
      [key |-> "P-3", pointsField |-> "customfield_10016", points |-> None, status |-> StatusBlockedByQa],
      [key |-> "P-4", pointsField |-> "customfield_10020", points |-> Some(2), status |-> StatusDoneLower],
      [key |-> "P-5", pointsField |-> "customfield_10016", points |-> Some(0), status |-> StatusInProgress] }

\* PageBeanIssue.issues
IssuePages == UNION { [1..n -> IssuePool] : n \in 0..MaxIssues }

\* Field catalogs the tenant may answer during a sprint analysis.
AnalyzeCatalogs ==
    { cat \in Catalogs : Len(cat) <= 1 /\ \A i \in DOMAIN cat : cat[i].id = "customfield_10020" }

\* Failures the tenant may answer with during a sprint analysis.
AnalyzeFailures ==
    { [kind |-> "unreachable", cause |-> "timeout"],
      Response(404, [form |-> "text", text |-> "{\"errorMessages\":[\"no\"]}"]),
      Response(200, [form |-> "text", text |-> "null"]) }

\* sprints.values.first() and, for comparison, the last of the page.
LastSprint(values) == values[Len(values)]
FirstSprint(values) == Head(values)

\* Requests, by URL and query.
ActiveSprintRequest(board) ==
    [method |-> "Get", url |-> "/rest/agile/1.0/board/{}/sprint", board |-> board,
     query |-> <<"state", "active">>]
SprintRequest(id) ==
    [method |-> "Get", url |-> "/rest/agile/1.0/sprint/{}", sprint |-> id]
FieldsRequest == [method |-> "Get", url |-> "/rest/api/3/field"]
IssuesRequest(id, fieldId) ==
    [method |-> "Get", url |-> "/rest/agile/1.0/sprint/{}/issue", sprint |-> id,
     query |-> <<"fields", <<"summary", "status", fieldId>> >>]

\* A request as sent, and the same request once send_request has returned.
Sent(request) == [request |-> request, outcome |-> "pending"]
Settle(log, result) ==
    [log EXCEPT ![Len(log)].outcome = IF result.kind = "Err" THEN "failed" ELSE "ok"]

NoAnalysis == [kind |-> "Pending"]
AnalyzeError(e) == [kind |-> "Err", error |-> e]
Message(text) == [source |-> "message", text |-> text]

\* issue.fields.get(&story_points_field_id).and_then(|v| v.as_f64())
PointsOf(issue, fieldId) ==
    IF issue.pointsField = fieldId THEN issue.points ELSE None

\* The comparison made without regard to letter case.
IsCompletedIgnoringCase(name) ==
    \/ Len(name) = Len(StatusDone)
        /\ \A i \in DOMAIN name : ToAsciiLowercase(name[i]) = ToAsciiLowercase(StatusDone[i])
    \/ Len(name) = Len(StatusClosed)
        /\ \A i \in DOMAIN name : ToAsciiLowercase(name[i]) = ToAsciiLowercase(StatusClosed[i])

\* name == "Done" || name == "Closed"
IsCompleted(name) == name = StatusDone \/ name = StatusClosed

\* name.to_lowercase().contains("blocked")
IsBlocked(name) ==
    \E k \in 0..(Len(name) - Len(Blocked)) :
        \A i \in 1..Len(Blocked) : ToAsciiLowercase(name[k + i]) = Blocked[i]

\* The two sums of the velocity/completion loop.
RECURSIVE SumPoints(_, _, _, _)
SumPoints(issues, fieldId, completedOnly, i) ==
    IF i > Len(issues) THEN 0
    ELSE LET p == PointsOf(issues[i], fieldId)
             counted == p.some /\ (completedOnly => IsCompleted(issues[i].status))
         IN  (IF counted THEN p.v ELSE 0) + SumPoints(issues, fieldId, completedOnly, i + 1)

\* Keys of the issues at the kept positions, in order.
RECURSIVE KeysWhere(_, _, _)
KeysWhere(issues, kept, i) ==
    IF i > Len(issues) THEN <<>>
    ELSE (IF i \in kept THEN <<issues[i].key>> ELSE <<>>)
            \o KeysWhere(issues, kept, i + 1)

NonEmpty(keys) == IF keys = <<>> THEN None ELSE Some(keys)

\* SprintAnalysis as filled in after the issues arrived; the percentage is
\* kept as the exact ratio (completed * 100) / total.
Analyze(id, sprint, metrics, fieldId, issues) ==
    LET total == SumPoints(issues, fieldId, FALSE, 1)
        completed == SumPoints(issues, fieldId, TRUE, 1)
        unestimated == { i \in DOMAIN issues : ~PointsOf(issues[i], fieldId).some }
        blocked == { i \in DOMAIN issues : IsBlocked(issues[i].status) }
    IN  [sprint_id |-> id,
         sprint_name |-> sprint.name,
         sprint_state |-> sprint.state,
         velocity |-> IF "velocity" \in metrics THEN Some(completed) ELSE None,
         unestimated_issues |->
            IF "unestimated" \in metrics
            THEN NonEmpty(KeysWhere(issues, unestimated, 1)) ELSE None,
         blocked_issues |->
            IF "blocked" \in metrics
            THEN NonEmpty(KeysWhere(issues, blocked, 1)) ELSE None,
         total_points |-> IF "completion" \in metrics THEN Some(total) ELSE None,
         completed_points |-> IF "completion" \in metrics THEN Some(completed) ELSE None,
         completion_percentage |->
            IF "completion" \in metrics /\ total > 0
            THEN Some(<<completed * 100, total>>) ELSE None]

\* A chain that goes on to its next request whatever the last one returned.
AfterAwaitRegardless(result, next) == next

\* `?` after an await: an Err ends the function, an Ok goes on.
AfterAwait(result, next) == IF result.kind = "Err" THEN "analyze_done" ELSE next


----------------------------------------------------------------------------
(* Two resolvers as parallel tasks: data                                   *)

NoTenant == [fields |-> <<>>, transitions |-> <<>>]
NotSpawned == [field |-> "none", transition |-> "none"]

\* Catalogs and transition lists the tenant may hold during a parallel run.
ParCatalogs ==
    { cat \in AnalyzeCatalogs :
        \A i \in DOMAIN cat : cat[i].name \in { NameStoryPointsLower, NameStoryPoint } }
ParTransitionLists ==
    { ts \in TransitionLists :
        /\ Len(ts) <= MaxParTransitions
        /\ \A i \in DOMAIN ts : ts[i].to.statusCategory \in { "indeterminate", NoCategory } }


----------------------------------------------------------------------------
(* Tool handlers: data shared by issue_interact, issue_query,              *)
(* agile_sprint_manage and issue_mutate                                    *)

NoCall == [tool |-> "none"]
NoResponse == [kind |-> "none"]

\* r#"{"error": "..."}"# returned by a handler before any request.
JsonError(message) == [kind |-> "json_error", message |-> message]
\* Err(e) => e.to_string()
ErrorText(e) == [kind |-> "error_text", error |-> e]
\* Ok(res) => res
Body(res) == [kind |-> "body", value |-> res]
SuccessMessage(message) == [kind |-> "body", value |-> [success |-> TRUE, message |-> message]]

\* Replies of the tenant to a tool's request: failures, and successes with
\* an empty body or with a JSON document.
ToolFailures ==
    { [kind |-> "unreachable", cause |-> "timeout"],
      Response(404, [form |-> "text", text |-> "{\"errorMessages\":[\"no\"]}"]),
      Response(200, [form |-> "text", text |-> "<html>"]) }
ToolSuccesses ==
    { Response(204, [form |-> "text", text |-> ""]),
      Response(200, JsonBody("document")) }

\* serde_json::from_str::<serde_json::Value>: null is a value.
DecodeValue(body) ==
    IF body.form = "json" THEN [kind |-> "Ok", value |-> body.value]
    ELSE IF body.text \in { "", "null" } THEN [kind |-> "Ok", value |-> "null"]
    ELSE [kind |-> "Err", error |-> DecodeError("expected value")]

\* send_request::<serde_json::Value, _>
SendRequestValue(reply) ==
    IF reply.kind = "unreachable" \/ reply.body.form = "aborted" \/ ~IsSuccess(reply.status)
    THEN SendRequest(reply)
    ELSE DecodeValue(reply.body)

\* Issue key and account id used in the calls.
IssueKey == "PROJ-123"
AccountId == "5b10a2844c20165700ede21g"

----------------------------------------------------------------------------
(* issue_interact                                                          *)

\* IssueSocialParams
SocialActions == { "watch", "unwatch", "vote", "star" }
SocialParams ==
    [tool : { "issue_interact" }, action : SocialActions,
     issue_id_or_key : { IssueKey }, account_id : { None, Some(AccountId) }]

\* add_watcher_internal, remove_watcher_internal, add_vote_internal
AddWatcherRequest(key, account) ==
    [method |-> "Post", url |-> "/rest/api/3/issue/{}/watchers", issue |-> key, body |-> account]
RemoveWatcherRequest(key, account) ==
    [method |-> "Delete", url |-> "/rest/api/3/issue/{}/watchers", issue |-> key,
     query |-> <<"accountId", account>>]
AddVoteRequest(key) ==
    [method |-> "Post", url |-> "/rest/api/3/issue/{}/votes", issue |-> key]

\* params.account_id.unwrap_or_default()
UnwrapOrDefault(opt) == IF opt.some THEN opt.v ELSE ""

\* What issue_interact does up to its first await: the request it sends, or
\* the String it returns at once.
InteractDispatch(p) ==
    CASE p.action = "watch" ->
            IF p.account_id.some
            THEN [send |-> TRUE, request |-> AddWatcherRequest(p.issue_id_or_key, p.account_id.v)]
            ELSE [send |-> FALSE, response |-> JsonError("accountId required for watch")]
      [] p.action = "unwatch" ->
            [send |-> TRUE,
             request |-> RemoveWatcherRequest(p.issue_id_or_key, UnwrapOrDefault(p.account_id))]
      [] p.action = "vote" ->
            [send |-> TRUE, request |-> AddVoteRequest(p.issue_id_or_key)]
      [] OTHER ->
            [send |-> FALSE,
             response |-> ErrorText(Message(<<"Unknown action '{}'. Valid: watch, unwatch, vote", p.action>>))]

\* The success message of the internal handler that sent the request.
InteractSuccess(p) ==
    CASE p.action = "watch" -> SuccessMessage("Watcher added successfully")
      [] p.action = "unwatch" -> SuccessMessage("Watcher removed successfully")
      [] p.action = "vote" -> SuccessMessage("Vote added successfully")


----------------------------------------------------------------------------
(* FieldPreset and parse_field_filter                                      *)

FieldPresets == { "Minimal", "Basic", "Standard", "Detailed", "Full" }

\* FieldPreset::to_field_list: the literal of each arm, as code points.
ToFieldList(p) ==
    CASE p = "Minimal" ->
        \* "id,key"
        <<105, 100, 44, 107, 101, 121>>
      [] p = "Basic" ->
        \* "id,key,summary,status"
        <<105, 100, 44, 107, 101, 121, 44, 115, 117, 109, 109, 97, 114, 121, 44, 115, 116, 97, 116, 117, 115>>
      [] p = "Standard" ->
        \* "id,key,summary,status,assignee,priority,created,updated"
        <<105, 100, 44, 107, 101, 121, 44, 115, 117, 109, 109, 97, 114, 121, 44, 115, 116, 97, 116, 117, 115, 44, 97, 115, 115, 105, 103, 110, 101, 101, 44, 112, 114, 105, 111, 114, 105, 116, 121, 44, 99, 114, 101, 97, 116, 101, 100, 44, 117, 112, 100, 97, 116, 101, 100>>
      [] p = "Detailed" ->
        \* "id,key,summary,status,assignee,priority,created,updated,description,labels,components,issuelinks"
        <<105, 100, 44, 107, 101, 121, 44, 115, 117, 109, 109, 97, 114, 121, 44, 115, 116, 97, 116, 117, 115, 44, 97, 115, 115, 105, 103, 110, 101, 101, 44, 112, 114, 105, 111, 114, 105, 116, 121, 44, 99, 114, 101, 97, 116, 101, 100, 44, 117, 112, 100, 97, 116, 101, 100, 44, 100, 101, 115, 99, 114, 105, 112, 116, 105, 111, 110, 44, 108, 97, 98, 101, 108, 115, 44, 99, 111, 109, 112, 111, 110, 101, 110, 116, 115, 44, 105, 115, 115, 117, 101, 108, 105, 110, 107, 115>>
      [] p = "Full" ->
        \* "*all"
        <<42, 97, 108, 108>>

\* The name parse_field_filter matches for each preset (the arms of its match).
PresetName(p) ==
    CASE p = "Minimal" -> <<109, 105, 110, 105, 109, 97, 108>>
      [] p = "Basic" -> <<98, 97, 115, 105, 99>>
      [] p = "Standard" -> <<115, 116, 97, 110, 100, 97, 114, 100>>
      [] p = "Detailed" -> <<100, 101, 116, 97, 105, 108, 101, 100>>
      [] p = "Full" -> <<102, 117, 108, 108>>

\* char::is_whitespace, for the characters of the inputs: tab, line feed,
\* vertical tab, form feed, carriage return, space, next line, no-break space.
IsWhitespace(c) == c \in { 9, 10, 11, 12, 13, 32, 133, 160 }

\* str::trim returning its argument.
TrimNothing(s) == s

\* str::trim
Trim(s) ==
    LET kept == { i \in DOMAIN s : ~IsWhitespace(s[i]) }
    IN  IF kept = {} THEN <<>>
        ELSE SubSeq(s, CHOOSE i \in kept : \A j \in kept : i <= j,
                       CHOOSE i \in kept : \A j \in kept : i >= j)

\* str::to_lowercase, for ASCII and Latin-1 letters.
ToLowercase(s) ==
    [i \in 1..Len(s) |->
        IF s[i] \in 65..90 \/ (s[i] \in 192..222 /\ s[i] # 215) THEN s[i] + 32 ELSE s[i]]

\* str::contains(char) and str::replace(char, char)
ContainsChar(s, c) == \E i \in DOMAIN s : s[i] = c
ReplaceChar(s, from, to) == [i \in 1..Len(s) |-> IF s[i] = from THEN to ELSE s[i]]

\* parse_field_filter matching the preset names as they are written.
ParseFieldFilterExactCase(filter) ==
    LET trimmed == Trim(filter)
        named == { p \in FieldPresets : PresetName(p) = trimmed }
    IN  IF named # {} THEN ToFieldList(CHOOSE p \in named : TRUE)
        ELSE IF ContainsChar(trimmed, 32) /\ ~ContainsChar(trimmed, 44)
        THEN ReplaceChar(trimmed, 32, 44)
        ELSE trimmed

\* parse_field_filter: preset, space-separated list, or unchanged.
ParseFieldFilter(filter) ==
    LET trimmed == Trim(filter)
        named == { p \in FieldPresets : PresetName(p) = ToLowercase(trimmed) }
    IN  IF named # {} THEN ToFieldList(CHOOSE p \in named : TRUE)
        ELSE IF ContainsChar(trimmed, 32) /\ ~ContainsChar(trimmed, 44)
        THEN ReplaceChar(trimmed, 32, 44)
        ELSE trimmed

\* Filters given to parse_field_filter: a core, with whitespace around it.
FilterCores ==
    {
      \* 'minimal'
      <<109, 105, 110, 105, 109, 97, 108>>,
      \* 'MINIMAL'
      <<77, 73, 78, 73, 77, 65, 76>>,
      \* 'Minimal'
      <<77, 105, 110, 105, 109, 97, 108>>,
      \* 'basic'
      <<98, 97, 115, 105, 99>>,
      \* 'BASIC'
      <<66, 65, 83, 73, 67>>,
      \* 'Basic'
      <<66, 97, 115, 105, 99>>,
      \* 'standard'
      <<115, 116, 97, 110, 100, 97, 114, 100>>,
      \* 'STANDARD'
      <<83, 84, 65, 78, 68, 65, 82, 68>>,
      \* 'Standard'
      <<83, 116, 97, 110, 100, 97, 114, 100>>,
      \* 'detailed'
      <<100, 101, 116, 97, 105, 108, 101, 100>>,
      \* 'DETAILED'
      <<68, 69, 84, 65, 73, 76, 69, 68>>,
      \* 'Detailed'
      <<68, 101, 116, 97, 105, 108, 101, 100>>,
      \* 'full'
      <<102, 117, 108, 108>>,
      \* 'FULL'
      <<70, 85, 76, 76>>,
      \* 'Full'
      <<70, 117, 108, 108>>,
      \* 'id key summary'
      <<105, 100, 32, 107, 101, 121, 32, 115, 117, 109, 109, 97, 114, 121>>,
      \* 'id  key'
      <<105, 100, 32, 32, 107, 101, 121>>,
      \* 'id,key,summary'
      <<105, 100, 44, 107, 101, 121, 44, 115, 117, 109, 109, 97, 114, 121>>,
      \* 'id, key'
      <<105, 100, 44, 32, 107, 101, 121>>,
      \* '*all'
      <<42, 97, 108, 108>>,
      \* ''
      <<>>,
      \* 'id\tkey'
      <<105, 100, 9, 107, 101, 121>>,
      \* 'assignee.displayName'
      <<97, 115, 115, 105, 103, 110, 101, 101, 46, 100, 105, 115, 112, 108, 97, 121, 78, 97, 109, 101>>,
      \* 'id key customfield_10016'
      <<105, 100, 32, 107, 101, 121, 32, 99, 117, 115, 116, 111, 109, 102, 105, 101, 108, 100, 95, 49, 48, 48, 49, 54>>,
      \* 'minimal basic'
      <<109, 105, 110, 105, 109, 97, 108, 32, 98, 97, 115, 105, 99>>,
      \* 'basicx'
      <<98, 97, 115, 105, 99, 120>> }

\* "", " ", line feed and tab; "", " ", no-break space and space
PaddingsLeft == { <<>>, <<32>>, <<10, 9>> }
PaddingsRight == { <<>>, <<32>>, <<160, 32>> }
FilterInputs == { l \o core \o r : l \in PaddingsLeft, core \in FilterCores, r \in PaddingsRight }


\* serde_json::from_str::<T> for a struct T: null is not a struct.
DecodeStruct(body) ==
    IF body.form = "json" THEN [kind |-> "Ok", value |-> body.value]
    ELSE IF body.text \in { "", "null" }
    THEN [kind |-> "Err", error |-> DecodeError("invalid type: null, expected struct")]
    ELSE [kind |-> "Err", error |-> DecodeError("expected value")]

\* send_request::<T, _> for a struct T
SendRequestStruct(reply) ==
    IF reply.kind = "unreachable" \/ reply.body.form = "aborted" \/ ~IsSuccess(reply.status)
    THEN SendRequest(reply)
    ELSE DecodeStruct(reply.body)

\* The data argument, a families::JsonValue: an object with some keys, an
\* array of objects, or a string.
JsonObject(keys) == [form |-> "object", keys |-> keys]
JsonArray(items) == [form |-> "array", items |-> items]
JsonString == [form |-> "string"]

\* serde_json::from_value::<T>(data.0) for a struct T whose fields without
\* Option are `required`; unknown keys are ignored.
FromValue(data, required) ==
    IF data.form = "object"
    THEN IF required \subseteq data.keys
         THEN [kind |-> "Ok", value |-> data]
         ELSE [kind |-> "Err", error |-> DecodeError("missing field")]
    ELSE IF data.form = "array"
    THEN [kind |-> "Err", error |-> DecodeError("invalid length")]
    ELSE [kind |-> "Err", error |-> DecodeError("invalid type: string, expected struct")]

\* serde_json::from_value::<Vec<T>>(data.0)
FromValueVec(data, required) ==
    IF data.form # "array"
    THEN [kind |-> "Err", error |-> DecodeError("expected a sequence")]
    ELSE IF \A i \in DOMAIN data.items : FromValue(data.items[i], required).kind = "Ok"
    THEN [kind |-> "Ok", value |-> data.items]
    ELSE [kind |-> "Err", error |-> DecodeError("missing field")]

\* `let payload = from_value(data)?; send_request(request)`: the request is
\* sent when the payload deserializes, the error returned when it does not.
SendIfOk(payload, request) ==
    IF payload.kind = "Ok"
    THEN [send |-> TRUE, request |-> request]
    ELSE [send |-> FALSE, response |-> ErrorText(payload.error)]

----------------------------------------------------------------------------
(* issue_query                                                             *)

JqlText == "project = PROJ"

\* IssueQueryParams
IssueQueryParams ==
    [tool : { "issue_query" },
     issue_id_or_key : { None, Some(IssueKey) },
     jql : { None, Some(JqlText) },
     fields : { None, Some(<<"summary", "status">>) },
     expand : { None },
     include_transitions : { None, Some(TRUE) },
     max_results : { None },
     start_at : { None },
     properties : { None }]

\* get_issue_internal: the issue request and the transitions request.
GetIssueRequest(key, p) ==
    [method |-> "Get", url |-> "/rest/api/3/issue/{}", issue |-> key,
     query |-> [fields |-> p.fields, expand |-> p.expand, properties |-> p.properties]]
GetTransitionsRequest(key) ==
    [method |-> "Get", url |-> "/rest/api/3/issue/{}/transitions", issue |-> key]

\* search_issues_internal
SearchRequest(jql, p) ==
    [method |-> "Post", url |-> "/rest/api/3/search",
     body |-> [jql |-> jql, fields |-> p.fields, expand |-> p.expand,
               max_results |-> p.max_results, start_at |-> p.start_at]]

\* issue_query choosing the search whenever a jql is given.
IssueQueryDispatchJqlFirst(p) ==
    IF p.jql.some
    THEN [send |-> TRUE, request |-> SearchRequest(p.jql.v, p)]
    ELSE IF p.issue_id_or_key.some
    THEN [send |-> TRUE, request |-> GetIssueRequest(p.issue_id_or_key.v, p)]
    ELSE [send |-> FALSE, response |-> JsonError("Either issueIdOrKey or jql is required")]

\* issue_query up to its first await.
IssueQueryDispatch(p) ==
    IF p.issue_id_or_key.some
    THEN [send |-> TRUE, request |-> GetIssueRequest(p.issue_id_or_key.v, p)]
    ELSE IF p.jql.some
    THEN [send |-> TRUE, request |-> SearchRequest(p.jql.v, p)]
    ELSE [send |-> FALSE, response |-> JsonError("Either issueIdOrKey or jql is required")]

\* params.include_transitions.unwrap_or(false), in get_issue_internal only.
WantsTransitions(p) ==
    /\ p.issue_id_or_key.some
    /\ p.include_transitions.some /\ p.include_transitions.v

\* serde_json::to_string(&issue), with or without the inserted transitions.
IssueText(issue, withTransitions) ==
    [kind |-> "body", value |-> issue, transitions |-> withTransitions]


----------------------------------------------------------------------------
(* agile_sprint_manage                                                     *)

\* AgileSprintManageParams
SprintOperations == { "create", "update", "start", "close", "delete", "archive" }
AgileSprintManageParams ==
    [tool : { "agile_sprint_manage" },
     operation : SprintOperations,
     sprint_id : { None, Some(7) },
     board_id : { None, Some(3) },
     data : { None, Some(JsonObject({ "name" })), Some(JsonString) }]

\* create_sprint_internal, update_sprint_internal, delete_sprint_internal
CreateSprintRequest(board, data) ==
    [method |-> "Post", url |-> "/rest/agile/1.0/sprint",
     body |-> [data |-> data, origin_board_id |-> Some(board)]]
UpdateSprintRequest(id, data) ==
    [method |-> "Put", url |-> "/rest/agile/1.0/sprint/{}", sprint |-> id, body |-> data]
DeleteSprintRequest(id) ==
    [method |-> "Delete", url |-> "/rest/agile/1.0/sprint/{}", sprint |-> id]

\* agile_sprint_manage looking at data before the id.
AgileSprintManageDispatchDataFirst(p) ==
    CASE p.operation = "create" ->
            IF ~p.data.some
            THEN [send |-> FALSE, response |-> JsonError("data required for create")]
            ELSE IF ~p.board_id.some
            THEN [send |-> FALSE, response |-> JsonError("boardId required for create")]
            ELSE SendIfOk(FromValue(p.data.v, {}), CreateSprintRequest(p.board_id.v, p.data.v))
      [] p.operation \in { "update", "start", "close" } ->
            IF ~p.data.some
            THEN [send |-> FALSE, response |-> JsonError("data required for update/start/close")]
            ELSE IF ~p.sprint_id.some
            THEN [send |-> FALSE, response |-> JsonError("sprintId required for update/start/close")]
            ELSE SendIfOk(FromValue(p.data.v, {}), UpdateSprintRequest(p.sprint_id.v, p.data.v))
      [] p.operation = "delete" ->
            IF ~p.sprint_id.some
            THEN [send |-> FALSE, response |-> JsonError("sprintId required for delete")]
            ELSE [send |-> TRUE, request |-> DeleteSprintRequest(p.sprint_id.v)]
      [] OTHER ->
            [send |-> FALSE,
             response |-> ErrorText(Message(
                <<"Unknown operation '{}'. Valid: create, update, start, close, delete",
                  p.operation>>))]

\* agile_sprint_manage up to its first await; SprintData has only optional
\* fields.
AgileSprintManageDispatch(p) ==
    CASE p.operation = "create" ->
            IF ~p.board_id.some
            THEN [send |-> FALSE, response |-> JsonError("boardId required for create")]
            ELSE IF ~p.data.some
            THEN [send |-> FALSE, response |-> JsonError("data required for create")]
            ELSE SendIfOk(FromValue(p.data.v, {}), CreateSprintRequest(p.board_id.v, p.data.v))
      [] p.operation \in { "update", "start", "close" } ->
            IF ~p.sprint_id.some
            THEN [send |-> FALSE, response |-> JsonError("sprintId required for update/start/close")]
            ELSE IF ~p.data.some
            THEN [send |-> FALSE, response |-> JsonError("data required for update/start/close")]
            ELSE SendIfOk(FromValue(p.data.v, {}), UpdateSprintRequest(p.sprint_id.v, p.data.v))
      [] p.operation = "delete" ->
            IF ~p.sprint_id.some
            THEN [send |-> FALSE, response |-> JsonError("sprintId required for delete")]
            ELSE [send |-> TRUE, request |-> DeleteSprintRequest(p.sprint_id.v)]
      [] OTHER ->
            [send |-> FALSE,
             response |-> ErrorText(Message(
                <<"Unknown operation '{}'. Valid: create, update, start, close, delete",
                  p.operation>>))]

\* What the internal handler returns once send_request has returned.
AgileSprintManageResult(p, reply) ==
    IF p.operation = "delete"
    THEN LET res == SendRequestValue(reply)
         IN  IF res.kind = "Err" THEN res
             ELSE [kind |-> "Ok", response |-> SuccessMessage("Sprint deleted successfully")]
    ELSE LET res == SendRequestStruct(reply)
         IN  IF res.kind = "Err" THEN res
             ELSE [kind |-> "Ok", response |-> Body(res.value)]

----------------------------------------------------------------------------
(* issue_mutate                                                            *)

\* IssueMutateParams, as issue_mutate reads it.
IssueOperations == { "Create", "Update", "Delete", "Assign", "Transition" }
MutateData ==
    { JsonObject({ "fields" }), JsonObject({ "accountId" }), JsonObject({ "transition" }),
      JsonObject({}), JsonArray(<<JsonObject({ "fields" })>>), JsonString }
IssueMutateParams ==
    [tool : { "issue_mutate" },
     operation : IssueOperations,
     issue_id_or_key : { None, Some(IssueKey) },
     bulk : { None, Some(FALSE), Some(TRUE) },
     data : MutateData]

\* The fields without Option of CreateIssueData, UpdateIssueData,
\* DeleteIssueData, AssignIssueData and TransitionIssueData.
RequiredKeys(operation) ==
    CASE operation = "Create" -> { "fields" }
      [] operation = "Update" -> {}
      [] operation = "Delete" -> {}
      [] operation = "Assign" -> { "accountId" }
      [] operation = "Transition" -> { "transition" }

\* handle_create, handle_bulk_create, handle_update, handle_delete,
\* handle_assign, handle_transition
CreateIssueRequest(data) ==
    [method |-> "Post", url |-> "/rest/api/3/issue", body |-> data]
BulkCreateRequest(items) ==
    [method |-> "Post", url |-> "/rest/api/3/issue/bulk", body |-> [issue_updates |-> items]]
KeyedIssueRequest(operation, key, data) ==
    CASE operation = "Update" ->
            [method |-> "Put", url |-> "/rest/api/3/issue/{}", issue |-> key, body |-> data]
      [] operation = "Delete" ->
            [method |-> "Delete", url |-> "/rest/api/3/issue/{}", issue |-> key]
      [] operation = "Assign" ->
            [method |-> "Put", url |-> "/rest/api/3/issue/{}/assignee", issue |-> key,
             body |-> data]
      [] operation = "Transition" ->
            [method |-> "Post", url |-> "/rest/api/3/issue/{}/transitions", issue |-> key,
             body |-> data]

\* The literals returned when issue_id_or_key is None, and the messages of
\* the handlers, format!(.., key).
MissingKeyMessage(operation) ==
    CASE operation = "Update" -> "issueIdOrKey required for update"
      [] operation = "Delete" -> "issueIdOrKey required for delete"
      [] operation = "Assign" -> "issueIdOrKey required for assign"
      [] operation = "Transition" -> "issueIdOrKey required for transition"
HandledMessage(operation) ==
    CASE operation = "Update" -> "Issue {} updated successfully"
      [] operation = "Delete" -> "Issue {} deleted successfully"
      [] operation = "Assign" -> "Issue {} assigned successfully"
      [] operation = "Transition" -> "Issue {} transitioned successfully"

\* params.bulk.unwrap_or(false)
IsBulk(p) == p.bulk.some /\ p.bulk.v

\* issue_mutate sending the create payload without deserializing it first.
IssueMutateDispatchUnparsed(p) ==
    IF p.operation = "Create"
    THEN IF IsBulk(p)
         THEN [send |-> TRUE, request |-> BulkCreateRequest(p.data)]
         ELSE [send |-> TRUE, request |-> CreateIssueRequest(p.data)]
    ELSE IF ~p.issue_id_or_key.some
    THEN [send |-> FALSE,
          response |-> JsonError(MissingKeyMessage(p.operation))]
    ELSE SendIfOk(FromValue(p.data, RequiredKeys(p.operation)),
                  KeyedIssueRequest(p.operation, p.issue_id_or_key.v, p.data))

\* issue_mutate up to its first await.
IssueMutateDispatch(p) ==
    IF p.operation = "Create"
    THEN IF IsBulk(p)
         THEN SendIfOk(FromValueVec(p.data, RequiredKeys("Create")),
                       BulkCreateRequest(FromValueVec(p.data, RequiredKeys("Create")).value))
         ELSE SendIfOk(FromValue(p.data, RequiredKeys("Create")), CreateIssueRequest(p.data))
    ELSE IF ~p.issue_id_or_key.some
    THEN [send |-> FALSE,
          response |-> JsonError(MissingKeyMessage(p.operation))]
    ELSE SendIfOk(FromValue(p.data, RequiredKeys(p.operation)),
                  KeyedIssueRequest(p.operation, p.issue_id_or_key.v, p.data))

\* What the handler returns once send_request has returned.
IssueMutateResult(p, reply) ==
    IF p.operation = "Create"
    THEN LET res == SendRequestStruct(reply)
         IN  IF res.kind = "Err" THEN res
             ELSE [kind |-> "Ok", response |-> Body(res.value)]
    ELSE LET res == SendRequestValue(reply)
         IN  IF res.kind = "Err" THEN res
             ELSE [kind |-> "Ok",
                   response |-> SuccessMessage(<<HandledMessage(p.operation),
                                                 p.issue_id_or_key.v>>)]

----------------------------------------------------------------------------
(* Initial state: no operation in flight.                                  *)

Init ==
    /\ pc = "idle"
    /\ fields = <<>>
    /\ fieldResult = NoFieldResult
    /\ fieldRequests = 0
    /\ fieldReply = NoReply
    /\ target = "ToDo"
    /\ transitions = <<>>
    /\ passesRun = <<>>
    /\ transitionResult = NoTransitionResult
    /\ editFields = <<>>
    /\ editResult = NoEditResult
    /\ projectKey = KeyProj
    /\ typeLabel = LabelBug
    /\ createMeta = <<>>
    /\ typesScanned = 0
    /\ typeResult = NoTypeResult
    /\ token = <<>>
    /\ userCalls = 0
    /\ currentUser = NotAsked
    /\ assigneeResult = NoAssigneeResult
    /\ params = NoParams
    /\ requestLog = <<>>
    /\ sprintId = 0
    /\ sprintObj = NoSprint
    /\ activeSprints = None
    /\ issuesResponse = None
    /\ storyPointsFieldId = ""
    /\ analysis = NoAnalysis
    /\ calls = 0
    /\ fetches = 0
    /\ earlierFields = None
    /\ tenant = NoTenant
    /\ taskPc = NotSpawned
    /\ toolPc = "idle"
    /\ toolCall = NoCall
    /\ toolLog = <<>>
    /\ toolResponse = NoResponse
    /\ filterPc = "idle"
    /\ preset = "Full"
    /\ filterIn = <<>>
    /\ filterOut = <<>>
    /\ filterAgain = <<>>

----------------------------------------------------------------------------
(* find_story_points_field_id, one action per await point.                 *)

\* The call: self.fetch_fields_internal() sends GET /rest/api/3/field.
FindStoryPointsStart ==
    /\ pc = "idle"
    /\ pc' = "field_fetch"
    /\ fields' = <<>>
    /\ fieldResult' = NoFieldResult
    /\ fieldRequests' = fieldRequests + 1
    /\ UNCHANGED <<fieldReply, restOfField>>

\* send_request returns Ok(Vec<Field>); the loop over the fields runs.
FetchFieldsOk ==
    /\ pc = "field_fetch"
    /\ \E cat \in Catalogs :
        /\ fieldReply' = Response(200, JsonBody(cat))
        /\ fields' = cat
    /\ fieldResult' = FindStoryPoints(SendRequest(fieldReply'))
    /\ pc' = "field_done"
    /\ UNCHANGED <<fieldRequests, restOfField>>

\* send_request returns Err; `?` returns it from find_story_points_field_id.
FetchFieldsErr ==
    /\ pc = "field_fetch"
    /\ \E reply \in FailingReplies : fieldReply' = reply
    /\ fieldResult' = FindStoryPoints(SendRequest(fieldReply'))
    /\ pc' = "field_done"
    /\ UNCHANGED <<fields, fieldRequests, restOfField>>

\* The caller has taken the result.
FindStoryPointsReturn ==
    /\ pc = "field_done"
    /\ pc' = "idle"
    /\ fields' = <<>>
    /\ fieldResult' = NoFieldResult
    /\ fieldRequests' = 0
    /\ fieldReply' = NoReply
    /\ UNCHANGED restOfField

----------------------------------------------------------------------------
(* The transition resolver, one action per await point and per pass.       *)

ResolveTransitionStart ==
    /\ pc = "idle"
    /\ \E s \in Statuses : target' = s
    /\ pc' = "transition_fetch"
    /\ transitions' = <<>>
    /\ passesRun' = <<>>
    /\ transitionResult' = NoTransitionResult
    /\ UNCHANGED restOfTransition

GetTransitionsOk ==
    /\ pc = "transition_fetch"
    /\ \E ts \in TransitionLists : transitions' = ts
    /\ pc' = "pass1"
    /\ UNCHANGED <<target, passesRun, transitionResult, restOfTransition>>

GetTransitionsErr ==
    /\ pc = "transition_fetch"
    /\ transitionResult' = TransitionFetchError
    /\ pc' = "transition_done"
    /\ UNCHANGED <<target, transitions, passesRun, restOfTransition>>

TransitionPass1 ==
    /\ pc = "pass1"
    /\ passesRun' = Append(passesRun, 1)
    /\ LET i == Pass1(transitions, target)
       IN  IF i # 0
           THEN /\ transitionResult' = Resolved(transitions, i, "exactCandidate")
                /\ pc' = "transition_done"
           ELSE /\ pc' = "pass2"
                /\ UNCHANGED transitionResult
    /\ UNCHANGED <<target, transitions, restOfTransition>>

TransitionPass2 ==
    /\ pc = "pass2"
    /\ passesRun' = Append(passesRun, 2)
    /\ LET i == Pass2(transitions, target)
       IN  IF i # 0
           THEN /\ transitionResult' = Resolved(transitions, i, "targetName")
                /\ pc' = "transition_done"
           ELSE /\ pc' = "pass3"
                /\ UNCHANGED transitionResult
    /\ UNCHANGED <<target, transitions, restOfTransition>>

TransitionPass3 ==
    /\ pc = "pass3"
    /\ passesRun' = Append(passesRun, 3)
    /\ LET i == Pass3(transitions, target)
       IN  IF i # 0
           THEN transitionResult' = Resolved(transitions, i, "categoryFallback")
           ELSE transitionResult' = NoneResult
    /\ pc' = "transition_done"
    /\ UNCHANGED <<target, transitions, restOfTransition>>

ResolveTransitionReturn ==
    /\ pc = "transition_done"
    /\ pc' = "idle"
    /\ target' = "ToDo"
    /\ transitions' = <<>>
    /\ passesRun' = <<>>
    /\ transitionResult' = NoTransitionResult
    /\ UNCHANGED restOfTransition

----------------------------------------------------------------------------
(* The editable-field selector and its caller's diagnostic.                *)

SelectEditableStart ==
    /\ pc = "idle"
    /\ pc' = "edit_fetch"
    /\ UNCHANGED <<fieldVars, editVars, restOfEdit>>

\* getEditableFields(issueKey) answers; the selector scans the edit screen.
\* Without a match the caller goes on to ask the global resolver.
GetEditableFieldsOk ==
    /\ pc = "edit_fetch"
    /\ \E efs \in EditScreens :
        /\ editFields' = efs
        /\ editResult' = SelectEditable(efs, Candidates)
    /\ pc' = IF editResult'.kind = "Some" THEN "edit_done" ELSE "edit_diagnose"
    /\ fieldRequests' = IF editResult'.kind = "Some" THEN fieldRequests ELSE fieldRequests + 1
    /\ UNCHANGED <<fields, fieldResult, fieldReply, restOfEdit>>

GetEditableFieldsErr ==
    /\ pc = "edit_fetch"
    /\ editResult' = EditFetchError
    /\ pc' = "edit_done"
    /\ UNCHANGED <<editFields, fieldVars, restOfEdit>>

\* The diagnostic: what the global resolver finds for the same candidates.
EditDiagnoseOk ==
    /\ pc = "edit_diagnose"
    /\ \E cat \in EditScreens :
        /\ fieldReply' = Response(200, JsonBody(cat))
        /\ fields' = cat
    /\ fieldResult' = FindStoryPoints(SendRequest(fieldReply'))
    /\ pc' = "edit_done"
    /\ UNCHANGED <<fieldRequests, editVars, restOfEdit>>

EditDiagnoseErr ==
    /\ pc = "edit_diagnose"
    /\ \E reply \in FailingReplies : fieldReply' = reply
    /\ fieldResult' = FindStoryPoints(SendRequest(fieldReply'))
    /\ pc' = "edit_done"
    /\ UNCHANGED <<fields, fieldRequests, editVars, restOfEdit>>

SelectEditableReturn ==
    /\ pc = "edit_done"
    /\ pc' = "idle"
    /\ fields' = <<>>
    /\ fieldResult' = NoFieldResult
    /\ fieldRequests' = 0
    /\ fieldReply' = NoReply
    /\ editFields' = <<>>
    /\ editResult' = NoEditResult
    /\ UNCHANGED restOfEdit


----------------------------------------------------------------------------
(* The issue-type resolver, one action per await point and per stage.      *)

ResolveIssueTypeStart ==
    /\ pc = "idle"
    /\ \E k \in RequestedKeys : projectKey' = k
    /\ \E l \in TypeLabels : typeLabel' = l
    /\ pc' = "type_fetch"
    /\ UNCHANGED <<createMeta, typesScanned, typeResult, restOfType>>

GetIssueTypesOk ==
    /\ pc = "type_fetch"
    /\ \E cm \in CreateMetas : createMeta' = cm
    /\ pc' = "type_locate"
    /\ UNCHANGED <<projectKey, typeLabel, typesScanned, typeResult, restOfType>>

GetIssueTypesErr ==
    /\ pc = "type_fetch"
    /\ typeResult' = TypeFetchError
    /\ pc' = "type_done"
    /\ UNCHANGED <<projectKey, typeLabel, createMeta, typesScanned, restOfType>>

\* Locate the project entry; without one, fail before any type is compared.
LocateProjectEntry ==
    /\ pc = "type_locate"
    /\ IF LocateProject(createMeta, projectKey, 1) = 0
       THEN /\ typeResult' = TypeFailure("projectNotFound")
            /\ pc' = "type_done"
       ELSE /\ pc' = "type_scan"
            /\ UNCHANGED typeResult
    /\ UNCHANGED <<projectKey, typeLabel, createMeta, typesScanned, restOfType>>

\* Scan the located project's issue types in catalog order.
ScanProjectTypes ==
    /\ pc = "type_scan"
    /\ LET types == createMeta[LocateProject(createMeta, projectKey, 1)].issuetypes
           i == ScanIssueTypes(types, typeLabel, 1)
       IN  /\ typesScanned' = IF i = 0 THEN Len(types) ELSE i
           /\ typeResult' = IF i = 0 THEN TypeFailure("typeNotFoundInProject")
                            ELSE TypeFound(types[i])
    /\ pc' = "type_done"
    /\ UNCHANGED <<projectKey, typeLabel, createMeta, restOfType>>

ResolveIssueTypeReturn ==
    /\ pc = "type_done"
    /\ pc' = "idle"
    /\ projectKey' = KeyProj
    /\ typeLabel' = LabelBug
    /\ createMeta' = <<>>
    /\ typesScanned' = 0
    /\ typeResult' = NoTypeResult
    /\ UNCHANGED restOfType


----------------------------------------------------------------------------
(* The assignee resolver.                                                  *)

\* Entry: classify the token; only "me" reaches the gateway.
ResolveAssigneeStart ==
    /\ pc = "idle"
    /\ \E tok \in Tokens :
          /\ token' = tok
          /\ IF NeedsCurrentUser(tok)
             THEN /\ pc' = "assignee_fetch"
                  /\ UNCHANGED assigneeResult
             ELSE /\ pc' = "assignee_done"
                  /\ assigneeResult' = ResolveWithoutLookup(tok)
    /\ UNCHANGED <<userCalls, currentUser, restOfAssignee>>

GetCurrentUserOk ==
    /\ pc = "assignee_fetch"
    /\ userCalls' = userCalls + 1
    /\ \E id \in AccountIds :
          /\ currentUser' = [kind |-> "Ok", id |-> id]
          /\ assigneeResult' = [kind |-> "Some", value |-> id]
    /\ pc' = "assignee_done"
    /\ UNCHANGED <<token, restOfAssignee>>

GetCurrentUserErr ==
    /\ pc = "assignee_fetch"
    /\ userCalls' = userCalls + 1
    /\ currentUser' = [kind |-> "Err", id |-> <<>>]
    /\ assigneeResult' = AssigneeFetchError
    /\ pc' = "assignee_done"
    /\ UNCHANGED <<token, restOfAssignee>>

ResolveAssigneeReturn ==
    /\ pc = "assignee_done"
    /\ pc' = "idle"
    /\ token' = <<>>
    /\ userCalls' = 0
    /\ currentUser' = NotAsked
    /\ assigneeResult' = NoAssigneeResult
    /\ UNCHANGED restOfAssignee


----------------------------------------------------------------------------
(* analyze_sprint_internal, one action per request sent and per await.     *)

\* Entry: the sprint is given, or has to be looked up on the board, or the
\* call is refused.
AnalyzeSprintStart ==
    /\ pc = "idle"
    /\ \E p \in AnalyzeParams :
          /\ params' = p
          /\ IF p.sprint_id.some
             THEN /\ sprintId' = p.sprint_id.v
                  /\ pc' = "sprint_send"
                  /\ UNCHANGED analysis
             ELSE IF p.board_id.some
             THEN /\ pc' = "active_send"
                  /\ UNCHANGED <<sprintId, analysis>>
             ELSE /\ analysis' = AnalyzeError(Message("Either sprintId or boardId is required"))
                  /\ pc' = "analyze_done"
                  /\ UNCHANGED sprintId
    /\ UNCHANGED <<requestLog, sprintObj, activeSprints, issuesResponse, storyPointsFieldId, restOfAnalyze>>

ActiveSprintSend ==
    /\ pc = "active_send"
    /\ requestLog' = Append(requestLog, Sent(ActiveSprintRequest(params.board_id.v)))
    /\ pc' = "active_wait"
    /\ UNCHANGED <<params, sprintId, sprintObj, activeSprints, issuesResponse,
                   storyPointsFieldId, analysis, restOfAnalyze>>

\* sprints.values.first().ok_or("No active sprint found")?.id
ActiveSprintReply ==
    /\ pc = "active_wait"
    /\ \E reply \in AnalyzeFailures \cup { Response(200, JsonBody(page)) : page \in ActiveSprintPages } :
          LET res == SendRequest(reply)
          IN  /\ requestLog' = Settle(requestLog, res)
              /\ IF res.kind = "Err"
                 THEN /\ analysis' = AnalyzeError(res.error)
                      /\ pc' = AfterAwait(res, "sprint_send")
                      /\ UNCHANGED <<sprintId, activeSprints>>
                 ELSE IF res.value = <<>>
                 THEN /\ activeSprints' = Some(res.value)
                      /\ analysis' = AnalyzeError(Message("No active sprint found"))
                      /\ pc' = "analyze_done"
                      /\ UNCHANGED sprintId
                 ELSE /\ activeSprints' = Some(res.value)
                      /\ sprintId' = FirstSprint(res.value)
                      /\ pc' = AfterAwait(res, "sprint_send")
                      /\ UNCHANGED analysis
    /\ UNCHANGED <<params, sprintObj, issuesResponse, storyPointsFieldId, restOfAnalyze>>

\* get_sprint_internal(sprint_id)
SprintSend ==
    /\ pc = "sprint_send"
    /\ requestLog' = Append(requestLog, Sent(SprintRequest(sprintId)))
    /\ pc' = "sprint_wait"
    /\ UNCHANGED <<params, sprintId, sprintObj, activeSprints, issuesResponse,
                   storyPointsFieldId, analysis, restOfAnalyze>>

\* The sprint arrived; the field is discovered only for the metrics that
\* need it, otherwise it is the literal.
SprintReply ==
    /\ pc = "sprint_wait"
    /\ \E reply \in AnalyzeFailures \cup { Response(200, JsonBody(s)) : s \in Sprints } :
          LET res == SendRequest(reply)
              discover == NeedsStoryPoints(MetricsOf(params))
          IN  /\ requestLog' = Settle(requestLog, res)
              /\ pc' = AfterAwait(res, IF discover THEN "fields_send" ELSE "issues_send")
              /\ IF res.kind = "Err"
                 THEN /\ analysis' = AnalyzeError(res.error)
                      /\ UNCHANGED <<sprintObj, storyPointsFieldId>>
                 ELSE /\ sprintObj' = res.value
                      /\ storyPointsFieldId' =
                            IF discover THEN storyPointsFieldId ELSE DefaultStoryPointsFieldId
                      /\ UNCHANGED analysis
    /\ UNCHANGED <<params, sprintId, activeSprints, issuesResponse, restOfAnalyze>>

\* self.find_story_points_field_id()
FieldsSend ==
    /\ pc = "fields_send"
    /\ requestLog' = Append(requestLog, Sent(FieldsRequest))
    /\ pc' = "fields_wait"
    /\ UNCHANGED <<params, sprintId, sprintObj, activeSprints, issuesResponse,
                   storyPointsFieldId, analysis, restOfAnalyze>>

FieldsReply ==
    /\ pc = "fields_wait"
    /\ \E reply \in AnalyzeFailures \cup { Response(200, JsonBody(cat)) : cat \in AnalyzeCatalogs } :
          LET res == FindStoryPoints(SendRequest(reply))
          IN  /\ requestLog' = Settle(requestLog, res)
              /\ pc' = AfterAwait(res, "issues_send")
              /\ IF res.kind = "Err"
                 THEN /\ analysis' = AnalyzeError(res.error)
                      /\ UNCHANGED storyPointsFieldId
                 ELSE /\ storyPointsFieldId' = res.id
                      /\ UNCHANGED analysis
    /\ UNCHANGED <<params, sprintId, sprintObj, activeSprints, issuesResponse, restOfAnalyze>>

\* The final request of the operation.
IssuesSend ==
    /\ pc = "issues_send"
    /\ requestLog' = Append(requestLog, Sent(IssuesRequest(sprintId, storyPointsFieldId)))
    /\ pc' = "issues_wait"
    /\ UNCHANGED <<params, sprintId, sprintObj, activeSprints, issuesResponse,
                   storyPointsFieldId, analysis, restOfAnalyze>>

IssuesReply ==
    /\ pc = "issues_wait"
    /\ \E reply \in AnalyzeFailures \cup { Response(200, JsonBody(page)) : page \in IssuePages } :
          LET res == SendRequest(reply)
          IN  /\ requestLog' = Settle(requestLog, res)
              /\ issuesResponse' = IF res.kind = "Err" THEN None ELSE Some(res.value)
              /\ analysis' =
                    IF res.kind = "Err" THEN AnalyzeError(res.error)
                    ELSE [kind |-> "Ok",
                          value |-> Analyze(sprintId, sprintObj, MetricsOf(params),
                                            storyPointsFieldId, res.value)]
    /\ pc' = "analyze_done"
    /\ UNCHANGED <<params, sprintId, sprintObj, activeSprints, storyPointsFieldId, restOfAnalyze>>

AnalyzeSprintReturn ==
    /\ pc = "analyze_done"
    /\ pc' = "idle"
    /\ params' = NoParams
    /\ requestLog' = <<>>
    /\ sprintId' = 0
    /\ sprintObj' = NoSprint
    /\ activeSprints' = None
    /\ issuesResponse' = None
    /\ storyPointsFieldId' = ""
    /\ analysis' = NoAnalysis
    /\ UNCHANGED restOfAnalyze


----------------------------------------------------------------------------
(* Repeated invocations of find_story_points_field_id on one Jira value.   *)

\* A binding that prefers what an earlier invocation was answered with.
FieldsCached(fetched, earlier) ==
    IF fetched.kind = "Ok" /\ earlier.some
    THEN [kind |-> "Ok", value |-> earlier.v]
    ELSE fetched

\* let fields = self.fetch_fields_internal().await?: the Jira struct has no
\* field that could hold an earlier catalog.
FieldsBound(fetched, earlier) == fetched

\* An invocation begins and sends its request.
ResolveAgainStart ==
    /\ pc = "idle"
    /\ calls < MaxCalls
    /\ calls' = calls + 1
    /\ fetches' = fetches + 1
    /\ fieldRequests' = fieldRequests + 1
    /\ pc' = "field_fetch"
    /\ UNCHANGED <<fields, fieldResult, fieldReply, earlierFields, restOfCalls>>

ResolveAgainOk ==
    /\ pc = "field_fetch"
    /\ \E cat \in AnalyzeCatalogs :
          /\ fieldReply' = Response(200, JsonBody(cat))
          /\ fields' = FieldsBound(SendRequest(fieldReply'), earlierFields).value
    /\ fieldResult' = FindStoryPoints(FieldsBound(SendRequest(fieldReply'), earlierFields))
    /\ pc' = "field_done"
    /\ UNCHANGED <<fieldRequests, callVars, restOfCalls>>

ResolveAgainErr ==
    /\ pc = "field_fetch"
    /\ \E reply \in AnalyzeFailures : fieldReply' = reply
    /\ fieldResult' = FindStoryPoints(FieldsBound(SendRequest(fieldReply'), earlierFields))
    /\ pc' = "field_done"
    /\ UNCHANGED <<fields, fieldRequests, callVars, restOfCalls>>

\* The invocation returns; what it was answered with is history.
ResolveAgainReturn ==
    /\ pc = "field_done"
    /\ pc' = "idle"
    /\ earlierFields' =
          IF SendRequest(fieldReply).kind = "Ok"
          THEN Some(SendRequest(fieldReply).value) ELSE earlierFields
    /\ fields' = <<>>
    /\ fieldResult' = NoFieldResult
    /\ fieldRequests' = 0
    /\ fieldReply' = NoReply
    /\ UNCHANGED <<calls, fetches, restOfCalls>>

NextCalls ==
    \/ ResolveAgainStart
    \/ ResolveAgainOk
    \/ ResolveAgainErr
    \/ ResolveAgainReturn

SpecCalls == Init /\ [][NextCalls]_vars


----------------------------------------------------------------------------
(* Two resolvers of one operation run as parallel tasks (spec.md 5, 9).    *)

\* The operation spawns both resolvers; the tenant's metadata is fixed.
ParSpawn ==
    /\ pc = "idle"
    /\ taskPc = NotSpawned
    /\ \E cat \in ParCatalogs, ts \in ParTransitionLists :
          tenant' = [fields |-> cat, transitions |-> ts]
    /\ \E s \in Statuses : target' = s
    /\ taskPc' = [field |-> "fetch", transition |-> "fetch"]
    /\ fieldRequests' = fieldRequests + 1
    /\ UNCHANGED <<pc, fields, fieldResult, fieldReply, transitions, passesRun,
                   transitionResult, restOfPar>>

\* The field resolver's gateway call returns and its loop runs.
ParFieldFetched ==
    /\ taskPc.field = "fetch"
    /\ fieldReply' = Response(200, JsonBody(tenant.fields))
    /\ fields' = tenant.fields
    /\ fieldResult' = FindStoryPoints(SendRequest(fieldReply'))
    /\ taskPc' = [taskPc EXCEPT !.field = "done"]
    /\ UNCHANGED <<pc, fieldRequests, transitionVars, tenant, restOfPar>>

\* The transition resolver's gateway call returns.
ParTransitionsFetched ==
    /\ taskPc.transition = "fetch"
    /\ transitions' = tenant.transitions
    /\ taskPc' = [taskPc EXCEPT !.transition = "pass1"]
    /\ UNCHANGED <<pc, target, passesRun, transitionResult, fieldVars, tenant, restOfPar>>

ParPass1 ==
    /\ taskPc.transition = "pass1"
    /\ passesRun' = Append(passesRun, 1)
    /\ LET i == Pass1(transitions, target)
       IN  IF i # 0
           THEN /\ transitionResult' = Resolved(transitions, i, "exactCandidate")
                /\ taskPc' = [taskPc EXCEPT !.transition = "done"]
           ELSE /\ taskPc' = [taskPc EXCEPT !.transition = "pass2"]
                /\ UNCHANGED transitionResult
    /\ UNCHANGED <<pc, target, transitions, fieldVars, tenant, restOfPar>>

ParPass2 ==
    /\ taskPc.transition = "pass2"
    /\ passesRun' = Append(passesRun, 2)
    /\ LET i == Pass2(transitions, target)
       IN  IF i # 0
           THEN /\ transitionResult' = Resolved(transitions, i, "targetName")
                /\ taskPc' = [taskPc EXCEPT !.transition = "done"]
           ELSE /\ taskPc' = [taskPc EXCEPT !.transition = "pass3"]
                /\ UNCHANGED transitionResult
    /\ UNCHANGED <<pc, target, transitions, fieldVars, tenant, restOfPar>>

ParPass3 ==
    /\ taskPc.transition = "pass3"
    /\ passesRun' = Append(passesRun, 3)
    /\ LET i == Pass3(transitions, target)
       IN  IF i # 0
           THEN transitionResult' = Resolved(transitions, i, "categoryFallback")
           ELSE transitionResult' = NoneResult
    /\ taskPc' = [taskPc EXCEPT !.transition = "done"]
    /\ UNCHANGED <<pc, target, transitions, fieldVars, tenant, restOfPar>>

\* Both tasks are joined; the operation has its two results.
ParJoin ==
    /\ taskPc = [field |-> "done", transition |-> "done"]
    /\ taskPc' = NotSpawned
    /\ tenant' = NoTenant
    /\ fields' = <<>>
    /\ fieldResult' = NoFieldResult
    /\ fieldRequests' = 0
    /\ fieldReply' = NoReply
    /\ target' = "ToDo"
    /\ transitions' = <<>>
    /\ passesRun' = <<>>
    /\ transitionResult' = NoTransitionResult
    /\ UNCHANGED <<pc, restOfPar>>

NextPar ==
    \/ ParSpawn
    \/ ParFieldFetched
    \/ ParTransitionsFetched
    \/ ParPass1
    \/ ParPass2
    \/ ParPass3
    \/ ParJoin

SpecPar == Init /\ [][NextPar]_vars


----------------------------------------------------------------------------
(* Tool handlers, one action per call, per await and per return.           *)

\* A dispatch either sends its first request or returns at once.
Dispatched(d) ==
    IF d.send
    THEN /\ toolLog' = Append(toolLog, Sent(d.request))
         /\ toolPc' = "wait"
         /\ UNCHANGED toolResponse
    ELSE /\ toolResponse' = d.response
         /\ toolPc' = "done"
         /\ UNCHANGED toolLog

IssueInteractCall ==
    /\ toolPc = "idle"
    /\ \E p \in SocialParams :
          /\ toolCall' = p
          /\ Dispatched(InteractDispatch(p))
    /\ UNCHANGED restOfTools

IssueInteractReply ==
    /\ toolPc = "wait"
    /\ toolCall.tool = "issue_interact"
    /\ \E reply \in ToolFailures \cup ToolSuccesses :
          LET res == SendRequestValue(reply)
          IN  /\ toolLog' = Settle(toolLog, res)
              /\ toolResponse' =
                    IF res.kind = "Err" THEN ErrorText(res.error)
                    ELSE InteractSuccess(toolCall)
    /\ toolPc' = "done"
    /\ UNCHANGED <<toolCall, restOfTools>>

\* The MCP client has the String.
ToolReturn ==
    /\ toolPc = "done"
    /\ toolPc' = "idle"
    /\ toolCall' = NoCall
    /\ toolLog' = <<>>
    /\ toolResponse' = NoResponse
    /\ UNCHANGED restOfTools


----------------------------------------------------------------------------
(* FieldPreset::to_field_list and parse_field_filter applied to inputs.    *)

ToFieldListCall ==
    /\ filterPc = "idle"
    /\ \E p \in FieldPresets :
          /\ preset' = p
          /\ filterOut' = ToFieldList(p)
    /\ filterPc' = "preset"
    /\ UNCHANGED <<filterIn, filterAgain, restOfFilter>>

ParseFieldFilterCall ==
    /\ filterPc = "idle"
    /\ \E f \in FilterInputs :
          /\ filterIn' = f
          /\ filterOut' = ParseFieldFilter(f)
    /\ filterPc' = "parsed"
    /\ UNCHANGED <<preset, filterAgain, restOfFilter>>

\* The output is given to parse_field_filter once more.
ParseFieldFilterAgain ==
    /\ filterPc = "parsed"
    /\ filterAgain' = ParseFieldFilter(filterOut)
    /\ filterPc' = "reparsed"
    /\ UNCHANGED <<preset, filterIn, filterOut, restOfFilter>>

FilterReturn ==
    /\ filterPc \in { "preset", "reparsed" }
    /\ filterPc' = "idle"
    /\ preset' = "Full"
    /\ filterIn' = <<>>
    /\ filterOut' = <<>>
    /\ filterAgain' = <<>>
    /\ UNCHANGED restOfFilter

NextFilter ==
    \/ ToFieldListCall
    \/ ParseFieldFilterCall
    \/ ParseFieldFilterAgain
    \/ FilterReturn

SpecFilter == Init /\ [][NextFilter]_vars


\* issue_query: the call up to its first await.
IssueQueryCall ==
    /\ toolPc = "idle"
    /\ \E p \in IssueQueryParams :
          /\ toolCall' = p
          /\ Dispatched(IssueQueryDispatch(p))
    /\ UNCHANGED restOfTools

\* The issue or the search results arrive, or the request fails.
IssueQueryReply ==
    /\ toolPc = "wait"
    /\ toolCall.tool = "issue_query"
    /\ \E reply \in ToolFailures \cup ToolSuccesses :
          LET res == SendRequestStruct(reply)
          IN  /\ IF res.kind = "Err"
                 THEN /\ toolLog' = Settle(toolLog, res)
                      /\ toolResponse' = ErrorText(res.error)
                      /\ toolPc' = "done"
                 ELSE IF WantsTransitions(toolCall)
                 THEN /\ toolLog' = Append(Settle(toolLog, res),
                                           Sent(GetTransitionsRequest(toolCall.issue_id_or_key.v)))
                      /\ toolResponse' = IssueText(res.value, FALSE)
                      /\ toolPc' = "wait_transitions"
                 ELSE /\ toolLog' = Settle(toolLog, res)
                      /\ toolResponse' = IF toolCall.issue_id_or_key.some
                                         THEN IssueText(res.value, FALSE)
                                         ELSE Body(res.value)
                      /\ toolPc' = "done"
    /\ UNCHANGED <<toolCall, restOfTools>>

\* `if let Ok(trans_resp) = ...`: a failed transitions request is dropped.
IssueQueryTransitionsReply ==
    /\ toolPc = "wait_transitions"
    /\ \E reply \in ToolFailures \cup ToolSuccesses :
          LET res == SendRequestStruct(reply)
          IN  /\ toolLog' = Settle(toolLog, res)
              /\ toolResponse' = IssueText(toolResponse.value, res.kind = "Ok")
    /\ toolPc' = "done"
    /\ UNCHANGED <<toolCall, restOfTools>>



\* agile_sprint_manage: the call up to its first await.
AgileSprintManageCall ==
    /\ toolPc = "idle"
    /\ \E p \in AgileSprintManageParams :
          /\ toolCall' = p
          /\ Dispatched(AgileSprintManageDispatch(p))
    /\ UNCHANGED restOfTools

AgileSprintManageReply ==
    /\ toolPc = "wait"
    /\ toolCall.tool = "agile_sprint_manage"
    /\ \E reply \in ToolFailures \cup ToolSuccesses :
          LET res == AgileSprintManageResult(toolCall, reply)
          IN  /\ toolLog' = Settle(toolLog, res)
              /\ toolResponse' = IF res.kind = "Err" THEN ErrorText(res.error) ELSE res.response
    /\ toolPc' = "done"
    /\ UNCHANGED <<toolCall, restOfTools>>

\* issue_mutate: the call up to its first await.
IssueMutateCall ==
    /\ toolPc = "idle"
    /\ \E p \in IssueMutateParams :
          /\ toolCall' = p
          /\ Dispatched(IssueMutateDispatch(p))
    /\ UNCHANGED restOfTools

IssueMutateReply ==
    /\ toolPc = "wait"
    /\ toolCall.tool = "issue_mutate"
    /\ \E reply \in ToolFailures \cup ToolSuccesses :
          LET res == IssueMutateResult(toolCall, reply)
          IN  /\ toolLog' = Settle(toolLog, res)
              /\ toolResponse' = IF res.kind = "Err" THEN ErrorText(res.error) ELSE res.response
    /\ toolPc' = "done"
    /\ UNCHANGED <<toolCall, restOfTools>>


NextTools ==
    \/ IssueInteractCall
    \/ IssueInteractReply
    \/ ToolReturn
    \/ IssueQueryCall
    \/ IssueQueryReply
    \/ IssueQueryTransitionsReply
    \/ AgileSprintManageCall
    \/ AgileSprintManageReply
    \/ IssueMutateCall
    \/ IssueMutateReply

SpecTools == Init /\ [][NextTools]_vars

----------------------------------------------------------------------------

Next ==
    \/ FindStoryPointsStart
    \/ FetchFieldsOk
    \/ FetchFieldsErr
    \/ FindStoryPointsReturn
    \/ ResolveTransitionStart
    \/ GetTransitionsOk
    \/ GetTransitionsErr
    \/ TransitionPass1
    \/ TransitionPass2
    \/ TransitionPass3
    \/ ResolveTransitionReturn
    \/ SelectEditableStart
    \/ GetEditableFieldsOk
    \/ GetEditableFieldsErr
    \/ EditDiagnoseOk
    \/ EditDiagnoseErr
    \/ SelectEditableReturn
    \/ ResolveIssueTypeStart
    \/ GetIssueTypesOk
    \/ GetIssueTypesErr
    \/ LocateProjectEntry
    \/ ScanProjectTypes
    \/ ResolveIssueTypeReturn
    \/ ResolveAssigneeStart
    \/ GetCurrentUserOk
    \/ GetCurrentUserErr
    \/ ResolveAssigneeReturn
    \/ AnalyzeSprintStart
    \/ ActiveSprintSend
    \/ ActiveSprintReply
    \/ SprintSend
    \/ SprintReply
    \/ FieldsSend
    \/ FieldsReply
    \/ IssuesSend
    \/ IssuesReply
    \/ AnalyzeSprintReturn

Spec == Init /\ [][Next]_vars

TypeOK ==
    /\ pc \in { "idle", "field_fetch", "field_done", "transition_fetch",
                "pass1", "pass2", "pass3", "transition_done",
                "edit_fetch", "edit_diagnose", "edit_done",
                "type_fetch", "type_locate", "type_scan", "type_done",
                "assignee_fetch", "assignee_done",
                "active_send", "active_wait", "sprint_send", "sprint_wait", "fields_send", "fields_wait", "issues_send", "issues_wait", "analyze_done" }
    /\ fields \in Catalogs
    /\ fieldRequests \in 0..1
    /\ userCalls \in 0..1
    /\ typesScanned \in 0..MaxTypes
    /\ calls \in 0..MaxCalls /\ fetches \in 0..MaxCalls
    /\ Len(requestLog) <= 4
    /\ target \in Statuses
    /\ transitions \in TransitionLists

----------------------------------------------------------------------------
(* Vocabulary of the properties, stated without the resolver's operators.  *)

\* Lower case of a letter, ASCII or Latin-1.
FoldCase(c) ==
    IF c \in 65..90 \/ (c \in 192..222 /\ c # 215) THEN c + 32 ELSE c

\* The other case of a letter, ASCII or Latin-1.
OtherCase(c) ==
    IF c \in 65..90 \/ (c \in 192..222 /\ c # 215) THEN c + 32
    ELSE IF c \in 97..122 \/ (c \in 224..254 /\ c # 247) THEN c - 32
    ELSE c

\* Equal in full, ignoring case.
SameIgnoringCase(a, b) ==
    [i \in 1..Len(a) |-> FoldCase(a[i])] = [i \in 1..Len(b) |-> FoldCase(b[i])]

\* b occurs in a as a contiguous run of characters, ignoring case.
ContainsIgnoringCase(a, b) ==
    \E k \in 0..(Len(a) - Len(b)) :
        \A i \in 1..Len(b) : FoldCase(a[k + i]) = FoldCase(b[i])

\* One name is part of the other, and they are not equal ignoring case.
OnlySubstringRelated(a, b) ==
    /\ ~SameIgnoringCase(a, b)
    /\ ContainsIgnoringCase(a, b) \/ ContainsIgnoringCase(b, a)

\* The case permutation of a name that flips the letters at the positions
\* whose residue modulo MaskPeriod is in m.
FlipCase(name, m) ==
    [i \in 1..Len(name) |-> IF (i % MaskPeriod) \in m THEN OtherCase(name[i]) ELSE name[i]]

Masks == SUBSET (0..(MaskPeriod - 1))

ReplaceAt(seq, i, v) == [seq EXCEPT ![i] = v]

MinOf(S) == CHOOSE i \in S : \A j \in S : i <= j

\* The canonical status names as the specification spells them.
CanonicalName(s) ==
    CASE s = "ToDo"       -> <<84, 111, 32, 68, 111>>
      [] s = "InProgress" -> NameInProgress
      [] s = "Done"       -> <<68, 111, 110, 101>>
      [] s = "InReview"   -> <<73, 110, 32, 82, 101, 118, 105, 101, 119>>
      [] s = "Blocked"    -> <<66, 108, 111, 99, 107, 101, 100>>
      [] s = "Cancelled"  -> <<67, 97, 110, 99, 101, 108, 108, 101, 100>>

\* Indices of the fetched transitions that match the target, per criterion.
ByActionName ==
    { i \in DOMAIN transitions :
        SameIgnoringCase(transitions[i].name, CanonicalName(target)) }
ByTargetName ==
    { i \in DOMAIN transitions :
        SameIgnoringCase(transitions[i].to.name, CanonicalName(target)) }
ByCategory ==
    { i \in DOMAIN transitions :
        \/ target = "ToDo" /\ transitions[i].to.statusCategory = "new"
        \/ target \in { "InProgress", "InReview", "Blocked" }
             /\ transitions[i].to.statusCategory = "indeterminate"
        \/ target \in { "Done", "Cancelled" }
             /\ transitions[i].to.statusCategory = "done" }

\* The transition resolver has finished on a fetched list.
TransitionResolved ==
    pc = "transition_done" /\ transitionResult.kind \in { "Some", "None" }

Returns(i) ==
    /\ transitionResult.kind = "Some"
    /\ transitionResult.identifier = transitions[i].id

----------------------------------------------------------------------------
(* C1..C5: the transition resolver                                         *)

\* C1: whenever some fetched transition's action name equals the target's
\* canonical name ignoring case, the resolver returns the first such
\* transition in list order and runs no pass after the first, whatever the
\* earlier transitions of the list match by destination name or category.
C1_ActionNameFirst ==
    (TransitionResolved /\ ByActionName # {})
        => Returns(MinOf(ByActionName)) /\ passesRun = <<1>>

\* C1 witness: an action-name match is returned although an earlier
\* transition matches by destination status name and by category.
C1_Witness ==
    /\ TransitionResolved
    /\ ByActionName # {}
    /\ MinOf(ByActionName) > 1
    /\ 1 \in ByTargetName
    /\ 1 \in ByCategory
    /\ Returns(MinOf(ByActionName))

\* C2: when no action name equals the canonical name but some destination
\* status name does, the resolver returns the first such transition in list
\* order, whatever earlier transitions match by category.
C2_TargetNameSecond ==
    (TransitionResolved /\ ByActionName = {} /\ ByTargetName # {})
        => Returns(MinOf(ByTargetName)) /\ passesRun = <<1, 2>>

\* C2 witness: target InProgress, "Start Progress" -> "In Progress" is
\* returned although an earlier transition matches by category only.
C2_Witness ==
    /\ TransitionResolved
    /\ target = "InProgress"
    /\ ByActionName = {}
    /\ ByTargetName # {}
    /\ MinOf(ByTargetName) > 1
    /\ 1 \in ByCategory
    /\ transitions[MinOf(ByTargetName)].name = NameStartProgress
    /\ Returns(MinOf(ByTargetName))

\* C3: when neither name matches, the resolver returns the first transition
\* whose destination category key is the target's bucket (ToDo -> new,
\* InProgress/InReview/Blocked -> indeterminate, Done/Cancelled -> done); a
\* result tagged categoryFallback never has another or an absent category.
C3_CategoryThird ==
    /\ (TransitionResolved /\ ByActionName = {} /\ ByTargetName = {} /\ ByCategory # {})
          => Returns(MinOf(ByCategory)) /\ passesRun = <<1, 2, 3>>
    /\ (TransitionResolved /\ transitionResult.matchedVia = "categoryFallback")
          => \E i \in ByCategory : transitionResult.identifier = transitions[i].id

\* C3 witness: target Blocked is resolved by category past an earlier
\* transition whose destination has no category.
C3_Witness ==
    /\ TransitionResolved
    /\ target = "Blocked"
    /\ ByActionName = {} /\ ByTargetName = {}
    /\ ByCategory # {}
    /\ MinOf(ByCategory) > 1
    /\ transitions[1].to.statusCategory = NoCategory
    /\ Returns(MinOf(ByCategory))

\* C4: the result is None exactly when no fetched transition matches the
\* target by action name, destination name or category; an identifier that
\* is returned is the id of a fetched transition.
C4_NoneIffExhausted ==
    TransitionResolved =>
        /\ (transitionResult.kind = "None")
              <=> (ByActionName \cup ByTargetName \cup ByCategory = {})
        /\ transitionResult.kind = "Some"
              => \E i \in DOMAIN transitions :
                    transitionResult.identifier = transitions[i].id

\* C4 witness: None on a non-empty list, after all three passes.
C4_Witness ==
    /\ TransitionResolved
    /\ transitionResult.kind = "None"
    /\ Len(transitions) > 0
    /\ passesRun = <<1, 2, 3>>

\* C5: the matchedVia tag names the earliest criterion under which any
\* fetched transition matches, and the tagged transition matches under it.
C5_TagNamesPass ==
    (TransitionResolved /\ transitionResult.kind = "Some") =>
        /\ transitionResult.matchedVia = "exactCandidate"
              <=> ByActionName # {}
        /\ transitionResult.matchedVia = "targetName"
              <=> (ByActionName = {} /\ ByTargetName # {})
        /\ transitionResult.matchedVia = "categoryFallback"
              <=> (ByActionName = {} /\ ByTargetName = {} /\ ByCategory # {})
        /\ transitionResult.matchedVia = "exactCandidate"
              => \E i \in ByActionName : transitionResult.identifier = transitions[i].id
        /\ transitionResult.matchedVia = "targetName"
              => \E i \in ByTargetName : transitionResult.identifier = transitions[i].id

\* C5 witness: a result tagged targetName whose transition also matches by
\* category, so that a later pass would have found it too.
C5_Witness ==
    /\ TransitionResolved
    /\ transitionResult.matchedVia = "targetName"
    /\ \E i \in ByTargetName \cap ByCategory :
          transitionResult.identifier = transitions[i].id

----------------------------------------------------------------------------
(* C6..C10: the story-points field resolver                                *)

\* find_story_points_field_id has returned after a successful fetch.
FieldResolved == pc = "field_done" /\ fieldResult.kind # "Err"

\* Indices of the fetched fields whose display name equals the name in full,
\* ignoring case.
FieldsNamed(name) == { i \in DOMAIN fields : SameIgnoringCase(fields[i].name, name) }

\* Candidates that have a match in the fetched catalog.
MatchedCandidates == { k \in DOMAIN Candidates : FieldsNamed(Candidates[k]) # {} }

\* Indices of the fetched fields that match any candidate.
FieldsMatching == UNION { FieldsNamed(Candidates[k]) : k \in DOMAIN Candidates }

\* C6: the returned field is the first catalog match of the lowest-index
\* candidate that has any match, whatever the order of the catalog.
C6_FirstCandidateWins ==
    (FieldResolved /\ MatchedCandidates # {})
        => /\ fieldResult.kind = "Ok"
           /\ fieldResult.id =
                 fields[MinOf(FieldsNamed(Candidates[MinOf(MatchedCandidates)]))].id

C8_CaseInsensitive ==
    FieldResolved =>
        \A m \in Masks :
            /\ \A i \in DOMAIN fields :
                  ResolveField(
                      ReplaceAt(fields, i,
                          [id |-> fields[i].id, name |-> FlipCase(fields[i].name, m)]),
                      Candidates).id = fieldResult.id
            /\ \A k \in DOMAIN Candidates :
                  ResolveField(fields,
                      ReplaceAt(Candidates, k, FlipCase(Candidates[k], m))).id
                  = fieldResult.id

\* C8 witness: the returned field's display name is spelt in another case
\* than the candidate it matches.
C8_Witness ==
    /\ FieldResolved
    /\ fieldResult.idx > 0
    /\ fieldResult.id # "customfield_10016"
    /\ \A k \in DOMAIN Candidates : fields[fieldResult.idx].name # Candidates[k]

----------------------------------------------------------------------------
(* C11: the editable-field selector                                        *)

\* The selector has finished on a fetched edit screen.
EditResolved == pc = "edit_done" /\ editResult.kind \in { "Some", "None" }

\* Indices of the edit-screen fields named like some candidate.
EditMatching ==
    { i \in DOMAIN editFields :
        \E k \in DOMAIN Candidates :
            SameIgnoringCase(editFields[i].name, Candidates[k]) }

\* C11: the selector returns only a field of the issue's edit screen that is
\* named like a candidate; with no such field it returns None, also when
\* the global resolver finds a field for the same candidates, and each of
\* the two results stays what its own metadata gives.
C11_EditScreenOnly ==
    EditResolved =>
        /\ editResult.kind = "Some"
              => \E i \in EditMatching : editResult.id = editFields[i].id
        /\ (EditMatching = {}) <=> (editResult.kind = "None")
        /\ (fieldResult.kind = "Ok" /\ FieldsMatching # {})
              => /\ editResult.kind = "None"
                 /\ fieldResult.idx \in FieldsMatching
                 /\ fieldResult.id = fields[fieldResult.idx].id

\* C11 witness: nothing on a non-empty edit screen matches, while the global
\* catalog holds a field named like a candidate; the two results differ.
C11_Witness ==
    /\ EditResolved
    /\ Len(editFields) > 0
    /\ editResult.kind = "None"
    /\ fieldResult.kind = "Ok"
    /\ fieldResult.idx > 0
    /\ \A i \in DOMAIN editFields : editFields[i].id # fieldResult.id

----------------------------------------------------------------------------
(* Issue-type resolver claims.                                             *)

TypeResolved == pc = "type_done" /\ typeResult.kind \in { "Some", "None" }

\* Projects of the response whose key is, character for character, the
\* requested key.
ProjectsKeyed == { p \in DOMAIN createMeta : createMeta[p].key = projectKey }

\* Issue types of project p that carry the requested label in name or
\* untranslatedName, letter case aside.
TypesLabelled(p) ==
    { t \in DOMAIN createMeta[p].issuetypes :
        \/ SameIgnoringCase(createMeta[p].issuetypes[t].name, typeLabel)
        \/ SameIgnoringCase(createMeta[p].issuetypes[t].untranslatedName, typeLabel) }

\* C12: the project is located by exact key; when no entry of the response
\* has the requested key the resolver returns None without having compared
\* any issue type, whatever other projects of the response contain, and a
\* returned identifier always comes from a project with exactly that key.
C12_ExactProjectKey ==
    TypeResolved =>
        /\ ProjectsKeyed = {} => typeResult.kind = "None" /\ typesScanned = 0
        /\ typeResult.kind = "Some" =>
              \E p \in ProjectsKeyed : \E t \in DOMAIN createMeta[p].issuetypes :
                  typeResult.id = createMeta[p].issuetypes[t].id

\* The key is absent, yet the response holds a project whose key differs
\* only in case and which has a type with the requested label.
C12_Witness ==
    /\ TypeResolved
    /\ ProjectsKeyed = {}
    /\ typeResult.kind = "None"
    /\ \E p \in DOMAIN createMeta :
          /\ SameIgnoringCase(createMeta[p].key, projectKey)
          /\ TypesLabelled(p) # {}

\* The project the resolver works in: the one with exactly the requested key.
LocatedProject == CHOOSE p \in ProjectsKeyed : TRUE

\* C13: within the located project the resolver returns the first issue
\* type, in catalog order, whose name or untranslatedName is the requested
\* label ignoring case; id and isSubtask are those of that one entry, and no
\* later type was looked at.
C13_FirstLabelledType ==
    (TypeResolved /\ ProjectsKeyed # {}) =>
        LET types == createMeta[LocatedProject].issuetypes
            hits == TypesLabelled(LocatedProject)
        IN  /\ (hits # {}) <=> (typeResult.kind = "Some")
            /\ hits # {} =>
                  /\ typeResult.id = types[MinOf(hits)].id
                  /\ typeResult.isSubtask = types[MinOf(hits)].isSubtask
                  /\ typesScanned = MinOf(hits)

\* The returned type is the second of the project, is found through its
\* untranslatedName alone, and is a sub-task type while the first is not.
C13_Witness ==
    /\ TypeResolved
    /\ ProjectsKeyed # {}
    /\ typeResult.kind = "Some"
    /\ TypesLabelled(LocatedProject) # {}
    /\ MinOf(TypesLabelled(LocatedProject)) = 2
    /\ LET t == createMeta[LocatedProject].issuetypes[2]
       IN  /\ ~SameIgnoringCase(t.name, typeLabel)
           /\ SameIgnoringCase(t.untranslatedName, typeLabel)
           /\ typeResult.isSubtask
           /\ ~createMeta[LocatedProject].issuetypes[1].isSubtask

\* C14: both failures yield no identifier, and the error tells them apart:
\* project-not-found exactly when no entry has the requested key,
\* type-not-found-in-project exactly when the project exists and none of
\* its types carries the label.
C14_FailuresDistinguished ==
    (TypeResolved /\ typeResult.kind = "None") =>
        /\ typeResult.id = ""
        /\ typeResult.error \in { "projectNotFound", "typeNotFoundInProject" }
        /\ (typeResult.error = "projectNotFound") <=> (ProjectsKeyed = {})
        /\ (typeResult.error = "typeNotFoundInProject")
              <=> (ProjectsKeyed # {} /\ TypesLabelled(LocatedProject) = {})

\* A project that exists but has types, none of them with the label.
C14_Witness ==
    /\ TypeResolved
    /\ typeResult.kind = "None"
    /\ typeResult.error = "typeNotFoundInProject"
    /\ ProjectsKeyed # {}
    /\ Len(createMeta[LocatedProject].issuetypes) = MaxTypes
    /\ \E p \in DOMAIN createMeta : p \notin ProjectsKeyed /\ TypesLabelled(p) # {}

----------------------------------------------------------------------------
(* Assignee resolver claims.                                               *)

AssigneeResolved == pc = "assignee_done"

\* C15: "me" in any letter case yields the identifier the current-user
\* lookup returned; "unassigned" in any letter case yields the empty string
\* as a successful value, not None; every other token comes back unchanged.
C15_Sentinels ==
    AssigneeResolved =>
        /\ (SameIgnoringCase(token, SentinelMe) /\ currentUser.kind = "Ok")
              => assigneeResult = [kind |-> "Some", value |-> currentUser.id]
        /\ SameIgnoringCase(token, SentinelUnassigned)
              => assigneeResult = [kind |-> "Some", value |-> <<>>]
        /\ (/\ ~SameIgnoringCase(token, SentinelMe)
            /\ ~SameIgnoringCase(token, SentinelUnassigned))
              => assigneeResult = [kind |-> "Some", value |-> token]
        /\ assigneeResult.kind # "None"

\* "me" written in another letter case resolved to the caller's account id.
C15_Witness ==
    /\ AssigneeResolved
    /\ token # SentinelMe
    /\ SameIgnoringCase(token, SentinelMe)
    /\ currentUser.kind = "Ok"
    /\ assigneeResult.kind = "Some"
    /\ assigneeResult.value = AccountIdB

\* C16: the gateway is asked for the current user exactly once for "me" and
\* never for any other token, whose result therefore always succeeds; when
\* the lookup fails the resolver fails, and does not answer the empty string.
C16_GatewayOnlyForMe ==
    /\ userCalls > 0 => SameIgnoringCase(token, SentinelMe)
    /\ AssigneeResolved =>
          /\ userCalls = IF SameIgnoringCase(token, SentinelMe) THEN 1 ELSE 0
          /\ ~SameIgnoringCase(token, SentinelMe)
                => currentUser = NotAsked /\ assigneeResult.kind = "Some"
          /\ currentUser.kind = "Err"
                => /\ assigneeResult.kind = "Err"
                   /\ assigneeResult # [kind |-> "Some", value |-> <<>>]

\* The lookup for "Me" failed and so did the resolver.
C16_Witness ==
    /\ AssigneeResolved
    /\ token = TokenMeCapital
    /\ userCalls = 1
    /\ currentUser.kind = "Err"
    /\ assigneeResult.kind = "Err"

----------------------------------------------------------------------------
(* Failure of the metadata fetch.                                          *)

\* What fetch_fields_internal returned for the reply the tenant gave.
FieldFetch == SendRequest(fieldReply)

FieldReturned == pc \in { "field_done", "edit_done" } /\ fieldReply # NoReply

\* C17: when the fetch of the field catalog fails, the resolver has sent one
\* request and no second one, returns the very failure the fetch produced,
\* and returns neither a not-found result nor the default identifier.
C17_FailurePropagated ==
    /\ fieldRequests <= 1
    /\ (FieldReturned /\ FieldFetch.kind = "Err") =>
          /\ fieldRequests = 1
          /\ fieldResult.kind = "Err"
          /\ fieldResult.error = FieldFetch.error
          /\ fieldResult.kind \notin { "Ok", "None" }
          /\ fieldResult.id # "customfield_10016"

\* The tenant answered 401 with a body and the resolver returned that error.
C17_Witness ==
    /\ pc = "field_done"
    /\ fieldReply \in { Response(401, b) : b \in TextBodies }
    /\ fieldReply.body.text # ""
    /\ fieldResult.kind = "Err"
    /\ fieldResult.error.source = "HTTP {}: {}"
    /\ fieldResult.error.status = 401
    /\ fieldRequests = 1

----------------------------------------------------------------------------
(* The resolution chain of the sprint analysis.                            *)

\* Positions in the request log of the requests that failed.
FailedRequests == { i \in DOMAIN requestLog : requestLog[i].outcome = "failed" }

\* The final request of the operation was sent.
IssuesRequested ==
    \E i \in DOMAIN requestLog : requestLog[i].request.url = "/rest/agile/1.0/sprint/{}/issue"

\* C18: once a network call of the chain has failed, it is the last request
\* the operation ever sent: no later lookup, no final request, no second
\* attempt; the operation has ended with an error; and every request the
\* operation sends is a read, so nothing durable was written or undone.
C18_ChainAborts ==
    /\ \A i \in FailedRequests : i = Len(requestLog)
    /\ FailedRequests # {} =>
          /\ pc = "analyze_done"
          /\ analysis.kind = "Err"
          /\ requestLog[Len(requestLog)].request.url # "/rest/agile/1.0/sprint/{}/issue"
                => ~IssuesRequested
    /\ \A i, j \in DOMAIN requestLog :
          requestLog[i].request = requestLog[j].request => i = j
    /\ \A i \in DOMAIN requestLog : requestLog[i].request.method = "Get"

\* The field discovery failed after two lookups had succeeded.
C18_Witness ==
    /\ pc = "analyze_done"
    /\ Len(requestLog) = 3
    /\ requestLog[3].request.url = "/rest/api/3/field"
    /\ requestLog[3].outcome = "failed"
    /\ requestLog[1].outcome = "ok"
    /\ requestLog[2].outcome = "ok"
    /\ analysis.kind = "Err"

----------------------------------------------------------------------------
(* Repeated resolutions.                                                   *)

\* The identifier a catalog determines on its own.
IdentifierOf(cat) ==
    LET hits == { i \in DOMAIN cat :
                    \E k \in DOMAIN Candidates : SameIgnoringCase(cat[i].name, Candidates[k]) }
    IN  IF hits = {} THEN "customfield_10016" ELSE cat[MinOf(hits)].id

\* C19: every invocation begun has sent its own request (N resolutions, N
\* fetches), and what an invocation returns is determined by the reply to
\* its own request, whatever an earlier invocation was answered with.
C19_NoCaching ==
    /\ fetches = calls
    /\ pc \in { "field_fetch", "field_done" } => fieldRequests = 1
    /\ (pc = "field_done" /\ calls > 0) =>
          IF fieldReply.kind = "response" /\ fieldReply.body.form = "json"
          THEN /\ fieldResult.kind = "Ok"
               /\ fieldResult.id = IdentifierOf(fieldReply.body.value)
          ELSE fieldResult.kind = "Err"

\* A second invocation whose own catalog determines another identifier than
\* the catalog of the first one.
C19_Witness ==
    /\ pc = "field_done"
    /\ calls = 2
    /\ fetches = 2
    /\ earlierFields.some
    /\ fieldResult.kind = "Ok"
    /\ fieldResult.id # IdentifierOf(earlierFields.v)

----------------------------------------------------------------------------
(* Resolvers run in parallel.                                              *)

\* What the transition resolver returns when it runs alone on the list it
\* fetched: the first match of the first criterion that has one, and the
\* passes run up to that criterion.
SequentialTransitionOutcome ==
    IF ByActionName # {}
    THEN Returns(MinOf(ByActionName)) /\ passesRun = <<1>>
    ELSE IF ByTargetName # {}
    THEN Returns(MinOf(ByTargetName)) /\ passesRun = <<1, 2>>
    ELSE IF ByCategory # {}
    THEN Returns(MinOf(ByCategory)) /\ passesRun = <<1, 2, 3>>
    ELSE transitionResult.kind = "None" /\ passesRun = <<1, 2, 3>>

\* C20: under every interleaving of the two tasks' steps, each resolver ends
\* with the result it has when run alone on the same metadata, its passes
\* run in the order 1, 2, 3, and what one task has fetched is never altered
\* by a step of the other.
C20_InterleavingInvariant ==
    /\ taskPc.field = "done" =>
          /\ fields = tenant.fields
          /\ fieldResult.kind = "Ok"
          /\ fieldResult.id = IdentifierOf(tenant.fields)
    /\ taskPc.transition \in { "pass1", "pass2", "pass3", "done" } =>
          transitions = tenant.transitions
    /\ \E n \in 0..3 : passesRun = SubSeq(<<1, 2, 3>>, 1, n)
    /\ taskPc.transition = "done" => SequentialTransitionOutcome

\* Both tasks have finished: the field task found a field of the catalog,
\* the transition task needed all three passes.
C20_Witness ==
    /\ taskPc.field = "done"
    /\ taskPc.transition = "done"
    /\ Len(fields) > 0
    /\ fieldResult.id # "customfield_10016"
    /\ passesRun = <<1, 2, 3>>
    /\ transitionResult.kind = "Some"

----------------------------------------------------------------------------
(* Tool handlers.                                                          *)

ToolReturned(tool) == toolPc = "done" /\ toolCall.tool = tool

\* C21: issue_interact with action watch or unwatch and no accountId sends
\* no request and returns an error; only vote may omit accountId.
C21_AccountIdRequired ==
    (/\ toolCall.tool = "issue_interact"
     /\ toolCall.action \in { "watch", "unwatch" }
     /\ ~toolCall.account_id.some)
        => /\ toolLog = <<>>
           /\ toolPc = "done"
           /\ toolResponse.kind \in { "json_error", "error_text" }

----------------------------------------------------------------------------
(* Field presets and field filters                                         *)

\* The pieces of s between occurrences of sep, in order.
RECURSIVE SplitOn(_, _)
SplitOn(s, sep) ==
    LET at == { i \in DOMAIN s : s[i] = sep }
    IN  IF at = {} THEN <<s>>
        ELSE LET i == CHOOSE k \in at : \A j \in at : k <= j
             IN  <<SubSeq(s, 1, i - 1)>> \o SplitOn(SubSeq(s, i + 1, Len(s)), sep)

\* The field names each preset adds to the one before it.
MinimalFields == << <<105, 100>>, <<107, 101, 121>> >>
BasicAdds == << <<115, 117, 109, 109, 97, 114, 121>>, <<115, 116, 97, 116, 117, 115>> >>
StandardAdds == << <<97, 115, 115, 105, 103, 110, 101, 101>>, <<112, 114, 105, 111, 114, 105, 116, 121>>, <<99, 114, 101, 97, 116, 101, 100>>, <<117, 112, 100, 97, 116, 101, 100>> >>
DetailedAdds == << <<100, 101, 115, 99, 114, 105, 112, 116, 105, 111, 110>>, <<108, 97, 98, 101, 108, 115>>, <<99, 111, 109, 112, 111, 110, 101, 110, 116, 115>> >>
AllFields == << <<42, 97, 108, 108>> >>

CumulativeFields(p) ==
    CASE p = "Minimal" -> MinimalFields
      [] p = "Basic" -> MinimalFields \o BasicAdds
      [] p = "Standard" -> MinimalFields \o BasicAdds \o StandardAdds
      [] p = "Detailed" -> MinimalFields \o BasicAdds \o StandardAdds \o DetailedAdds
      [] p = "Full" -> AllFields

\* C22: the field list of a preset is exactly the cumulative one: Minimal is
\* id,key; Basic adds summary,status; Standard adds assignee, priority,
\* created, updated; Detailed adds description, labels, components and
\* nothing else; Full is "*all".
C22_PresetsCumulative ==
    filterPc = "preset" => SplitOn(filterOut, 44) = CumulativeFields(preset)

\* t is s without its leading and trailing whitespace.
IsTrimOf(t, s) ==
    \E a \in 1..(Len(s) + 1), b \in 0..Len(s) :
        /\ t = SubSeq(s, a, b)
        /\ \A i \in 1..(a - 1) : IsWhitespace(s[i])
        /\ \A i \in (b + 1)..Len(s) : IsWhitespace(s[i])
        /\ t # <<>> => (~IsWhitespace(t[1]) /\ ~IsWhitespace(t[Len(t)]))
        /\ t = <<>> => \A i \in DOMAIN s : IsWhitespace(s[i])

NamedPresets(t) == { p \in FieldPresets : SameIgnoringCase(t, PresetName(p)) }
SpaceSeparated(t) == (\E i \in DOMAIN t : t[i] = 32) /\ ~(\E i \in DOMAIN t : t[i] = 44)

\* What the filter t, already trimmed, stands for.
FilterMeaning(out, t) ==
    IF NamedPresets(t) # {}
    THEN \A p \in NamedPresets(t) : out = ToFieldList(p)
    ELSE IF SpaceSeparated(t)
    THEN /\ SplitOn(out, 44) = SplitOn(t, 32)
         /\ \A i \in DOMAIN out : out[i] # 32
    ELSE out = t

\* C23: parse_field_filter trims its input; a preset name in any letter case
\* gives that preset's field list; a list separated only by spaces gives the
\* same fields in the same order separated by commas; any other input comes
\* back unchanged apart from the trimming; and parsing the output again
\* changes nothing.
C23_ParseFieldFilter ==
    /\ filterPc \in { "parsed", "reparsed" } =>
          \E t \in { SubSeq(filterIn, a, b) : a \in 1..(Len(filterIn) + 1), b \in 0..Len(filterIn) } :
              /\ IsTrimOf(t, filterIn)
              /\ FilterMeaning(filterOut, t)
    /\ filterPc = "reparsed" => filterAgain = filterOut

\* An upper-case preset name with whitespace around it has been parsed, and
\* parsed again.
C23_Witness_PaddedPreset ==
    /\ filterPc = "reparsed"
    /\ filterIn = <<10, 9>> \o <<83, 84, 65, 78, 68, 65, 82, 68>> \o <<160, 32>>
    /\ filterOut = ToFieldList("Standard")

----------------------------------------------------------------------------
(* issue_query                                                             *)

IsSingleIssueFetch(r) == r.method = "Get" /\ r.url = "/rest/api/3/issue/{}"
IsJqlSearch(r) == r.url = "/rest/api/3/search"

\* C24: issue_query with issueIdOrKey fetches that one issue and its request
\* is the one the same call without jql sends; the JQL search is sent only
\* when issueIdOrKey is omitted, and carries the given jql; with neither, the
\* tool returns "Either issueIdOrKey or jql is required" and sends nothing.
C24_QuerySelection ==
    toolCall.tool = "issue_query" =>
        /\ toolCall.issue_id_or_key.some =>
              /\ toolLog # <<>>
              /\ IsSingleIssueFetch(toolLog[1].request)
              /\ toolLog[1].request.issue = toolCall.issue_id_or_key.v
              /\ toolLog[1].request =
                    IssueQueryDispatch([toolCall EXCEPT !.jql = None]).request
        /\ \A i \in DOMAIN toolLog :
              IsJqlSearch(toolLog[i].request) => ~toolCall.issue_id_or_key.some
        /\ (~toolCall.issue_id_or_key.some /\ toolCall.jql.some) =>
              /\ Len(toolLog) = 1
              /\ IsJqlSearch(toolLog[1].request)
              /\ toolLog[1].request.body.jql = toolCall.jql.v
        /\ (~toolCall.issue_id_or_key.some /\ ~toolCall.jql.some) =>
              /\ toolLog = <<>>
              /\ toolPc = "done"
              /\ toolResponse = [kind |-> "json_error",
                                 message |-> "Either issueIdOrKey or jql is required"]

\* A call with both issueIdOrKey and jql has returned the issue it fetched.
C24_Witness_BothGiven ==
    /\ ToolReturned("issue_query")
    /\ toolCall.issue_id_or_key.some
    /\ toolCall.jql.some
    /\ toolLog # <<>>
    /\ toolLog[1].outcome = "ok"
    /\ toolResponse.kind = "body"

----------------------------------------------------------------------------
(* Which sprint the analysis is about.                                     *)

AnalyzeRunning ==
    pc \in { "active_send", "active_wait", "sprint_send", "sprint_wait", "fields_send",
             "fields_wait", "issues_send", "issues_wait", "analyze_done" }

\* Positions of the active-sprint lookups, and the sprints the sprint and
\* sprint-issues requests were about.
ActiveSprintLookups ==
    { i \in DOMAIN requestLog : requestLog[i].request.url = "/rest/agile/1.0/board/{}/sprint" }
SprintsAskedFor ==
    { requestLog[i].request.sprint :
        i \in { k \in DOMAIN requestLog :
                  requestLog[k].request.url \in { "/rest/agile/1.0/sprint/{}",
                                                   "/rest/agile/1.0/sprint/{}/issue" } } }
AnalyzedSprint == IF analysis.kind = "Ok" THEN { analysis.value.sprint_id } ELSE {}

\* C25: with sprintId the analysis is about that sprint and no active-sprint
\* lookup is made, whatever boardId is; without sprintId and with boardId the
\* first request is the board's active-sprint lookup and the analysis is
\* about the first sprint it returned; an empty answer ends the call with
\* "No active sprint found"; with neither id the call ends with an error and
\* no request.
C25_TargetSelection ==
    AnalyzeRunning =>
        /\ params.sprint_id.some =>
              /\ ActiveSprintLookups = {}
              /\ SprintsAskedFor \cup AnalyzedSprint \subseteq { params.sprint_id.v }
              /\ pc = "analyze_done" => requestLog # <<>>
        /\ (~params.sprint_id.some /\ params.board_id.some) =>
              /\ pc # "active_send" =>
                    /\ ActiveSprintLookups = { 1 }
                    /\ requestLog[1].request.board = params.board_id.v
              /\ SprintsAskedFor \cup AnalyzedSprint # {} =>
                    /\ activeSprints.some
                    /\ activeSprints.v # <<>>
                    /\ SprintsAskedFor \cup AnalyzedSprint = { activeSprints.v[1] }
              /\ (activeSprints.some /\ activeSprints.v = <<>>) =>
                    /\ pc = "analyze_done"
                    /\ Len(requestLog) = 1
                    /\ analysis = [kind |-> "Err",
                                   error |-> [source |-> "message",
                                              text |-> "No active sprint found"]]
        /\ (~params.sprint_id.some /\ ~params.board_id.some) =>
              /\ requestLog = <<>>
              /\ pc = "analyze_done"
              /\ analysis.kind = "Err"

\* The board answered with two active sprints and the first was analyzed.
C25_Witness_FirstActiveSprint ==
    /\ pc = "analyze_done"
    /\ ~params.sprint_id.some
    /\ activeSprints = [some |-> TRUE, v |-> <<9, 8>>]
    /\ analysis.kind = "Ok"
    /\ analysis.value.sprint_id = 9

----------------------------------------------------------------------------
(* agile_sprint_manage and issue_mutate                                    *)

\* The call ended with this error literal and nothing was sent.
RefusedWith(message) ==
    /\ toolLog = <<>>
    /\ toolPc = "done"
    /\ toolResponse = [kind |-> "json_error", message |-> message]

\* C26: create without boardId is refused for the boardId, also when data is
\* missing too, and with boardId but without data for the data; with both,
\* sprintId makes no difference. update, start and close without sprintId
\* are refused for the sprintId, with it but without data for the data, and
\* with both send the request update sends. delete without sprintId is
\* refused and with it sends the delete, whatever else is given. Any other
\* operation ends with 'Unknown operation' and no request.
C26_SprintManageValidation ==
    toolCall.tool = "agile_sprint_manage" =>
        LET p == toolCall
            sent == { toolLog[i].request : i \in DOMAIN toolLog }
        IN  /\ p.operation = "create" =>
                  /\ ~p.board_id.some => RefusedWith("boardId required for create")
                  /\ (p.board_id.some /\ ~p.data.some) => RefusedWith("data required for create")
                  /\ (p.board_id.some /\ p.data.some /\ p.data.v.form = "object") =>
                        sent = { [method |-> "Post", url |-> "/rest/agile/1.0/sprint",
                                  body |-> [data |-> p.data.v, origin_board_id |-> p.board_id]] }
            /\ p.operation \in { "update", "start", "close" } =>
                  /\ ~p.sprint_id.some => RefusedWith("sprintId required for update/start/close")
                  /\ (p.sprint_id.some /\ ~p.data.some) =>
                        RefusedWith("data required for update/start/close")
                  /\ (p.sprint_id.some /\ p.data.some /\ p.data.v.form = "object") =>
                        /\ sent = { AgileSprintManageDispatch([p EXCEPT !.operation = "update"]).request }
                        /\ \A r \in sent : r.method = "Put" /\ r.sprint = p.sprint_id.v
            /\ p.operation = "delete" =>
                  /\ ~p.sprint_id.some => RefusedWith("sprintId required for delete")
                  /\ p.sprint_id.some =>
                        sent = { [method |-> "Delete", url |-> "/rest/agile/1.0/sprint/{}",
                                  sprint |-> p.sprint_id.v] }
            /\ p.operation \notin { "create", "update", "start", "close", "delete" } =>
                  /\ toolLog = <<>>
                  /\ toolPc = "done"
                  /\ toolResponse.kind = "error_text"
                  /\ toolResponse.error.text[1] =
                        "Unknown operation '{}'. Valid: create, update, start, close, delete"

\* close, with sprintId and data and a boardId on top, has updated the sprint.
C26_Witness_CloseUpdates ==
    /\ ToolReturned("agile_sprint_manage")
    /\ toolCall.operation = "close"
    /\ toolCall.board_id.some
    /\ Len(toolLog) = 1
    /\ toolLog[1].request.method = "Put"
    /\ toolLog[1].outcome = "ok"
    /\ toolResponse.kind = "body"

\* The endpoint create is meant to use, by the bulk flag.
CreateEndpoint(p) ==
    IF p.bulk = [some |-> TRUE, v |-> TRUE] THEN "/rest/api/3/issue/bulk" ELSE "/rest/api/3/issue"

KeylessRefusal ==
    (/\ toolCall.operation \in { "Update", "Delete", "Assign", "Transition" }
     /\ ~toolCall.issue_id_or_key.some) =>
        RefusedWith(CASE toolCall.operation = "Update" -> "issueIdOrKey required for update"
                      [] toolCall.operation = "Delete" -> "issueIdOrKey required for delete"
                      [] toolCall.operation = "Assign" -> "issueIdOrKey required for assign"
                      [] toolCall.operation = "Transition" ->
                            "issueIdOrKey required for transition")

OneResponse ==
    /\ toolPc = "done" => toolResponse.kind \in { "json_error", "error_text", "body" }
    /\ toolPc # "done" => toolResponse.kind = "none"

\* C27: update, delete, assign and transition without issueIdOrKey return
\* "issueIdOrKey required for <operation>" and send nothing; create, with or
\* without issueIdOrKey, sends exactly one request, to the bulk endpoint when
\* bulk is true and to the single-issue endpoint otherwise; every call ends
\* with one response.
C27_MutateDispatch ==
    toolCall.tool = "issue_mutate" =>
        /\ KeylessRefusal
        /\ toolCall.operation = "Create" =>
              /\ Len(toolLog) = 1
              /\ toolLog[1].request.url = CreateEndpoint(toolCall)
        /\ OneResponse

\* The create payload deserializes: an object with fields, or with bulk an
\* array of such objects.
CreatePayloadValid(p) ==
    IF p.bulk = [some |-> TRUE, v |-> TRUE]
    THEN /\ p.data.form = "array"
         /\ \A i \in DOMAIN p.data.items :
               p.data.items[i].form = "object" /\ "fields" \in p.data.items[i].keys
    ELSE p.data.form = "object" /\ "fields" \in p.data.keys

\* C27, as the code has it: create sends at most one request, exactly one
\* when its payload deserializes, to the endpoint the bulk flag names, and
\* none otherwise, the deserialization error being the response.
C27_MutateDispatchValidPayload ==
    toolCall.tool = "issue_mutate" =>
        /\ KeylessRefusal
        /\ toolCall.operation = "Create" =>
              IF CreatePayloadValid(toolCall)
              THEN /\ Len(toolLog) = 1
                   /\ toolLog[1].request.url = CreateEndpoint(toolCall)
                   /\ toolLog[1].request.method = "Post"
              ELSE /\ toolLog = <<>>
                   /\ toolPc = "done"
                   /\ toolResponse.kind = "error_text"
                   /\ toolResponse.error.source = "serde_json"
        /\ OneResponse

\* A bulk create without issueIdOrKey has been answered by the bulk endpoint.
C27_Witness_BulkCreate ==
    /\ ToolReturned("issue_mutate")
    /\ toolCall.operation = "Create"
    /\ ~toolCall.issue_id_or_key.some
    /\ toolCall.bulk = [some |-> TRUE, v |-> TRUE]
    /\ Len(toolLog) = 1
    /\ toolLog[1].request.url = "/rest/api/3/issue/bulk"
    /\ toolLog[1].outcome = "ok"
    /\ toolResponse.kind = "body"

----------------------------------------------------------------------------
(* Field discovery inside the sprint analysis.                             *)

\* The metrics asked for, [velocity, unestimated] when none are given.
RequestedMetrics ==
    IF params.metrics.some THEN params.metrics.v ELSE { "velocity", "unestimated" }
DiscoveryNeeded == RequestedMetrics \cap { "velocity", "completion", "unestimated" } # {}

FieldFetches == { i \in DOMAIN requestLog : requestLog[i].request.url = "/rest/api/3/field" }
IssueFetches ==
    { i \in DOMAIN requestLog : requestLog[i].request.url = "/rest/agile/1.0/sprint/{}/issue" }

\* The keys of the issues that have no number under the field, in order.
RECURSIVE KeysWithoutNumber(_, _)
KeysWithoutNumber(issues, fieldId) ==
    IF issues = <<>> THEN <<>>
    ELSE (IF Head(issues).pointsField = fieldId /\ Head(issues).points.some
          THEN <<>> ELSE <<Head(issues).key>>)
            \o KeysWithoutNumber(Tail(issues), fieldId)

\* C28: the field catalog is fetched, once, only for metrics that include
\* velocity, completion or unestimated, and then before the sprint's issues
\* are asked for; without such a metric no field fetch is made and the
\* identifier is customfield_10016; the identifier of this step is the one in
\* the issues query and the one read from the issues; after a failed field
\* fetch the issues are not asked for.
C28_DiscoveryWhenNeeded ==
    AnalyzeRunning =>
        /\ Cardinality(FieldFetches) <= 1
        /\ FieldFetches # {} => DiscoveryNeeded
        /\ IssueFetches # {} =>
              /\ DiscoveryNeeded <=> FieldFetches # {}
              /\ \A f \in FieldFetches, i \in IssueFetches :
                    f < i /\ requestLog[f].outcome = "ok"
              /\ ~DiscoveryNeeded => storyPointsFieldId = "customfield_10016"
              /\ \A i \in IssueFetches :
                    requestLog[i].request.query[2] = <<"summary", "status", storyPointsFieldId>>
        /\ (\E f \in FieldFetches : requestLog[f].outcome = "failed") =>
              /\ IssueFetches = {}
              /\ pc = "analyze_done"
              /\ analysis.kind = "Err"
        /\ (analysis.kind = "Ok" /\ "unestimated" \in RequestedMetrics) =>
              /\ issuesResponse.some
              /\ analysis.value.unestimated_issues =
                    LET keys == KeysWithoutNumber(issuesResponse.v, storyPointsFieldId)
                    IN  IF keys = <<>> THEN [some |-> FALSE] ELSE [some |-> TRUE, v |-> keys]

\* Only the unestimated metric was asked for; the catalog named another
\* field than the default, and the issues were asked for and read under it.
C28_Witness_DiscoveredField ==
    /\ pc = "analyze_done"
    /\ analysis.kind = "Ok"
    /\ params.metrics = [some |-> TRUE, v |-> { "unestimated", "capacity" }]
    /\ storyPointsFieldId = "customfield_10020"
    /\ Len(requestLog) >= 3
    /\ requestLog[Len(requestLog) - 1].request.url = "/rest/api/3/field"
    /\ requestLog[Len(requestLog)].request.query[2][3] = "customfield_10020"
    /\ issuesResponse.some
    /\ Len(issuesResponse.v) = 2
    /\ analysis.value.unestimated_issues.some

----------------------------------------------------------------------------
(* Completion metrics of the sprint analysis.                              *)

\* "Done" and "Closed"
CompletedNames == { <<68, 111, 110, 101>>, <<67, 108, 111, 115, 101, 100>> }

HasNumber(issue, fieldId) == issue.pointsField = fieldId /\ issue.points.some

\* The sum of the points of the estimated issues whose status is among names.
RECURSIVE PointsWithStatus(_, _, _)
PointsWithStatus(issues, fieldId, names) ==
    IF issues = <<>> THEN 0
    ELSE (IF HasNumber(Head(issues), fieldId) /\ Head(issues).status \in names
          THEN Head(issues).points.v ELSE 0)
            + PointsWithStatus(Tail(issues), fieldId, names)

AllStatuses == { issuesResponse.v[i].status : i \in DOMAIN issuesResponse.v }

\* C29: completed_points is the sum of the points of the issues whose status
\* is exactly "Done" or "Closed", total_points the sum over all issues with a
\* number, and the first never exceeds the second; completion_percentage is
\* there exactly when completion was asked for and total_points > 0, and is
\* completed_points / total_points * 100; the issues without a number count
\* in neither sum and are, in order, the unestimated_issues, which is left
\* out when there are none.
C29_CompletionMetrics ==
    (AnalyzeRunning /\ analysis.kind = "Ok") =>
        /\ issuesResponse.some
        /\ LET issues == issuesResponse.v
               total == PointsWithStatus(issues, storyPointsFieldId, AllStatuses)
               completed == PointsWithStatus(issues, storyPointsFieldId, CompletedNames)
               missing == KeysWithoutNumber(issues, storyPointsFieldId)
               result == analysis.value
           IN  /\ completed <= total
               /\ "completion" \in RequestedMetrics =>
                     /\ result.total_points = [some |-> TRUE, v |-> total]
                     /\ result.completed_points = [some |-> TRUE, v |-> completed]
               /\ result.completion_percentage.some <=>
                     ("completion" \in RequestedMetrics /\ total > 0)
               /\ result.completion_percentage.some =>
                     /\ result.completion_percentage.v[2] > 0
                     /\ result.completion_percentage.v[1] * total =
                           completed * 100 * result.completion_percentage.v[2]
               /\ "unestimated" \in RequestedMetrics =>
                     /\ missing = <<>> => ~result.unestimated_issues.some
                     /\ missing # <<>> => result.unestimated_issues = [some |-> TRUE, v |-> missing]

\* Three issues: one Closed with 5 points, one "done" in lower case with 2,
\* one without a number; 5 of 7 points are completed.
C29_Witness_PartlyCompleted ==
    /\ pc = "analyze_done"
    /\ analysis.kind = "Ok"
    /\ issuesResponse.some
    /\ Len(issuesResponse.v) = 3
    /\ \E i \in DOMAIN issuesResponse.v : ~HasNumber(issuesResponse.v[i], storyPointsFieldId)
    /\ analysis.value.total_points = [some |-> TRUE, v |-> 7]
    /\ analysis.value.completed_points = [some |-> TRUE, v |-> 5]
    /\ analysis.value.completion_percentage = [some |-> TRUE, v |-> <<500, 7>>]

====
